---- MODULE Spec2Model ----
(***************************************************************************)
(* A model of the text-commentary plugin (src/main.ts): the footnote        *)
(* resolver (processFootnotes), the block-bounds locator                    *)
(* (getCurrentCommentaryBlockBounds) and the editing commands built on it   *)
(* (handleFootnote, createNewFootnote, navigateToFootnote...,               *)
(* getNextFootnoteNumberInBlock, addFootnoteDefinitionToBlock).             *)
(*                                                                         *)
(* Text is modelled as a sequence of one-character strings; a document is   *)
(* a sequence of lines.  Line numbers and character offsets are 0-based as  *)
(* in the source; NONE stands for JavaScript's undefined / null.            *)
(***************************************************************************)
EXTENDS Integers, Sequences, FiniteSets

VARIABLES
    doc,              \* editor.getValue().split("\n"): the document's lines
    cursor,           \* editor.getCursor(): [line, ch], the selection's head
    anchor,           \* the selection's other end; equal to cursor when empty
    notice,           \* the text class of the last Notice shown
    last,             \* history: what the last command saw and returned
    bounds,           \* the locator's last result (a bounds record or NONE)
    commentaryText,   \* processFootnotes: argument commentaryText
    footnotesText,    \* processFootnotes: argument footnotesText
    resolved,         \* processFootnotes: its result and per-reference indices
    source,           \* processCommentaryBlock: argument source, the raw block
    parsed,           \* parseBlockContent: its result
    rendered,         \* processCommentaryBlock: the ids and targets it renders
    footnote,         \* parseFootnoteContent: argument footnote
    classified,       \* parseFootnoteContent: its result
    blockCounter,     \* this.blockCounter: the blocks rendered so far
    blockRegistry,    \* this.blockRegistry: block id -> the block's sections
    passes,           \* history: the ids issued so far, and how many of
                      \* them since the last teardown
    dom,              \* renderCommentaryWithFootnotes: tempContainer, the
                      \* container, and history: the nodes processNode saw
    flat,             \* processFootnoteContent: source and target
    pc                \* which step the modelled run is at

vars == <<doc, cursor, anchor, notice, last, bounds,
          commentaryText, footnotesText, resolved,
          source, parsed, rendered, footnote, classified, blockCounter,
          blockRegistry, passes, dom, flat, pc>>

NONE == -1

\* nothing sectionized, rendered or classified yet
NoParse ==
    [originalText |-> <<>>, commentary |-> <<>>, footnotes |-> <<>>,
     metadata |-> <<>>]

NoRender == [blockId |-> <<>>, markers |-> <<>>, items |-> <<>>]

NoClassification == [type |-> <<>>, content |-> <<>>]

\* new Map()
NoBlocks == [x \in {} |-> <<>>]

NoPasses == [issued |-> <<>>, live |-> 0]

NoDom == [blockId |-> <<>>, host |-> <<>>, tempContainer |-> <<>>,
          container |-> <<>>, visited |-> <<>>]

\* body is history: the source as the host rendered it
NoFlat == [body |-> <<>>, source |-> <<>>, target |-> <<>>]

NoRenderPass ==
    /\ source = <<>>
    /\ parsed = NoParse
    /\ rendered = NoRender
    /\ footnote = <<>>
    /\ classified = NoClassification
    /\ blockCounter = 0
    /\ blockRegistry = NoBlocks
    /\ passes = NoPasses
    /\ dom = NoDom
    /\ flat = NoFlat

----------------------------------------------------------------------------
(* Characters and strings *)

Digits == <<"0", "1", "2", "3", "4", "5", "6", "7", "8", "9">>

IsDigit(c) == \E i \in 1..10 : Digits[i] = c

DigitVal(c) == (CHOOSE i \in 1..10 : Digits[i] = c) - 1

\* \s of a JavaScript regular expression, over the model's alphabet
IsSpace(c) == c \in {" ", "\n"}

\* s[i] of the source (0-based); "" past either end
CharAt(s, i) == IF i >= 0 /\ i < Len(s) THEN s[i + 1] ELSE ""

\* String.prototype.startsWith
StartsWith(s, p) == Len(s) >= Len(p) /\ SubSeq(s, 1, Len(p)) = p

\* String.prototype.substring(a, b) with 0-based offsets, b exclusive
Substring(s, a, b) ==
    LET lo == IF a < 0 THEN 0 ELSE IF a > Len(s) THEN Len(s) ELSE a
        hi == IF b < 0 THEN 0 ELSE IF b > Len(s) THEN Len(s) ELSE b
    IN  IF lo <= hi THEN SubSeq(s, lo + 1, hi) ELSE SubSeq(s, hi + 1, lo)

\* parseInt of a string of decimal digits
RECURSIVE ParseInt(_)
ParseInt(ds) ==
    IF ds = <<>> THEN 0
    ELSE 10 * ParseInt(SubSeq(ds, 1, Len(ds) - 1)) + DigitVal(ds[Len(ds)])

\* template-literal formatting of a non-negative integer: ${n}
RECURSIVE NumToString(_)
NumToString(n) ==
    IF n < 10 THEN <<Digits[n + 1]>>
    ELSE NumToString(n \div 10) \o <<Digits[(n % 10) + 1]>>

\* String.prototype.trim
RECURSIVE TrimLeft(_)
TrimLeft(s) ==
    IF s # <<>> /\ IsSpace(s[1]) THEN TrimLeft(Tail(s)) ELSE s

RECURSIVE TrimRight(_)
TrimRight(s) ==
    IF s # <<>> /\ IsSpace(s[Len(s)])
    THEN TrimRight(SubSeq(s, 1, Len(s) - 1)) ELSE s

Trim(s) == TrimRight(TrimLeft(s))

\* Array.prototype.join("\n") and String.prototype.split("\n")
RECURSIVE JoinLines(_)
JoinLines(ls) ==
    IF ls = <<>> THEN <<>>
    ELSE IF Len(ls) = 1 THEN ls[1]
    ELSE ls[1] \o <<"\n">> \o JoinLines(Tail(ls))

MinOf(S) == CHOOSE m \in S : \A x \in S : m <= x

\* first offset >= i that holds a newline, or the length
LineEnd(s, i) ==
    MinOf({j \in i..(Len(s) - 1) : s[j + 1] = "\n"} \cup {Len(s)})

\* the pieces of s between the newlines at the offsets in nl, from offset i
RECURSIVE SplitAt(_, _, _)
SplitAt(s, i, nl) ==
    IF nl = {} THEN <<SubSeq(s, i + 1, Len(s))>>
    ELSE <<SubSeq(s, i + 1, MinOf(nl))>>
             \o SplitAt(s, MinOf(nl) + 1, nl \ {MinOf(nl)})

SplitLines(s) == SplitAt(s, 0, {j \in 0..(Len(s) - 1) : s[j + 1] = "\n"})

----------------------------------------------------------------------------
(* The delimiter vocabulary *)

\* BQ stands for the backquote character
BQ == "bq"

FENCE == <<BQ, BQ, BQ>>

OPEN_FENCE == FENCE \o <<"c", "o", "m", "m", "e", "n", "t", "a", "r", "y">>

D_METADATA ==
    <<"-", "-", "-", "m", "e", "t", "a", "d", "a", "t", "a", "-", "-", "-">>

D_TEXT == <<"-", "-", "-", "t", "e", "x", "t", "-", "-", "-">>

D_COMMENTARY ==
    <<"-", "-", "-", "c", "o", "m", "m", "e", "n", "t", "a", "r", "y",
      "-", "-", "-">>

D_FOOTNOTE ==
    <<"-", "-", "-", "f", "o", "o", "t", "n", "o", "t", "e", "-", "-", "-">>

----------------------------------------------------------------------------
(* The block-bounds locator: getCurrentCommentaryBlockBounds *)

\* lines[i] of the source (0-based)
LineAt(lines, i) == lines[i + 1]

\* a locator that takes any fence on the cursor line for a foreign one
RECURSIVE FindBlockStartStrict(_, _, _)
FindBlockStartStrict(lines, cursorLine, i) ==
    IF i < 0 THEN NONE
    ELSE IF StartsWith(LineAt(lines, i), OPEN_FENCE) THEN i
    ELSE IF StartsWith(LineAt(lines, i), FENCE) THEN NONE
    ELSE FindBlockStartStrict(lines, cursorLine, i - 1)

\* the backward scan for the block-open fence; NONE for both "return null"s
RECURSIVE FindBlockStart(_, _, _)
FindBlockStart(lines, cursorLine, i) ==
    IF i < 0 THEN NONE
    ELSE IF StartsWith(LineAt(lines, i), OPEN_FENCE) THEN i
    ELSE IF StartsWith(LineAt(lines, i), FENCE) /\ i < cursorLine THEN NONE
    ELSE FindBlockStart(lines, cursorLine, i - 1)

\* the forward scan for the closing fence; lines.length when there is none
RECURSIVE FindBlockEnd(_, _)
FindBlockEnd(lines, i) ==
    IF i >= Len(lines) THEN Len(lines)
    ELSE IF StartsWith(LineAt(lines, i), FENCE) THEN i
    ELSE FindBlockEnd(lines, i + 1)

EmptyBounds(blockStart, blockEnd) ==
    [startLine |-> blockStart, endLine |-> blockEnd,
     textStart |-> NONE, textEnd |-> NONE,
     commentaryStart |-> NONE, commentaryEnd |-> NONE,
     footnoteStart |-> NONE, footnoteEnd |-> NONE,
     metadataStart |-> NONE, metadataEnd |-> NONE]

\* the locator's "return null"
NullBounds == EmptyBounds(NONE, NONE)

IsNull(b) == b.startLine = NONE

\* one iteration of the section loop: st = [b |-> bounds, cur |-> section]
SectionStep(st, line, i) ==
    LET b == st.b
        cur == st.cur
    IN  IF StartsWith(line, D_METADATA) THEN
            [b |-> [b EXCEPT
                     !.metadataEnd = IF cur = "metadata" THEN i ELSE @,
                     !.metadataStart = i],
             cur |-> "metadata"]
        ELSE IF StartsWith(line, D_TEXT) THEN
            [b |-> [b EXCEPT
                     !.metadataEnd = IF cur = "metadata" THEN i ELSE @,
                     !.textEnd = IF cur = "text" THEN i ELSE @,
                     !.textStart = i],
             cur |-> "text"]
        ELSE IF StartsWith(line, D_COMMENTARY) THEN
            [b |-> [b EXCEPT
                     !.textEnd = IF cur = "text" THEN i ELSE @,
                     !.commentaryEnd = IF cur = "commentary" THEN i ELSE @,
                     !.commentaryStart = i],
             cur |-> "commentary"]
        ELSE IF StartsWith(line, D_FOOTNOTE) THEN
            [b |-> [b EXCEPT
                     !.commentaryEnd = IF cur = "commentary" THEN i ELSE @,
                     !.footnoteEnd = IF cur = "footnote" THEN i ELSE @,
                     !.footnoteStart = i],
             cur |-> "footnote"]
        ELSE st

RECURSIVE SectionLoop(_, _, _, _)
SectionLoop(lines, st, i, blockEnd) ==
    IF i >= blockEnd THEN st
    ELSE SectionLoop(lines, SectionStep(st, LineAt(lines, i), i),
                     i + 1, blockEnd)

\* "Set end boundaries for the last section"
CloseLastSection(st, blockEnd) ==
    LET b == st.b
        cur == st.cur
    IN  IF cur = "metadata" /\ b.metadataStart # NONE
        THEN [b EXCEPT !.metadataEnd = blockEnd]
        ELSE IF cur = "text" /\ b.textStart # NONE
        THEN [b EXCEPT !.textEnd = blockEnd]
        ELSE IF cur = "commentary" /\ b.commentaryStart # NONE
        THEN [b EXCEPT !.commentaryEnd = blockEnd]
        ELSE IF cur = "footnote" /\ b.footnoteStart # NONE
        THEN [b EXCEPT !.footnoteEnd = blockEnd]
        ELSE b

\* a locator that remembers the block it found last and resumes the search
\* below it
getCurrentCommentaryBlockBoundsResuming(lines, cursorLine) ==
    LET from == IF IsNull(bounds) \/ bounds.endLine + 1 >= Len(lines)
                THEN cursorLine
                ELSE bounds.endLine + 1
        blockStart == FindBlockStart(lines, from, from)
        blockEnd == FindBlockEnd(lines, blockStart + 1)
        st == SectionLoop(lines,
                          [b |-> EmptyBounds(blockStart, blockEnd), cur |-> ""],
                          blockStart + 1, blockEnd)
    IN  IF blockStart = NONE THEN NullBounds
        ELSE CloseLastSection(st, blockEnd)

getCurrentCommentaryBlockBounds(lines, cursorLine) ==
    LET blockStart == FindBlockStart(lines, cursorLine, cursorLine)
        blockEnd == FindBlockEnd(lines, blockStart + 1)
        st == SectionLoop(lines,
                          [b |-> EmptyBounds(blockStart, blockEnd), cur |-> ""],
                          blockStart + 1, blockEnd)
    IN  IF blockStart = NONE THEN NullBounds
        ELSE CloseLastSection(st, blockEnd)

----------------------------------------------------------------------------
(* The footnote resolver: processFootnotes *)

\* first offset >= i that holds no digit
DigitsEnd(s, i) ==
    MinOf({j \in i..(Len(s) - 1) : ~IsDigit(s[j + 1])} \cup {Len(s)})

\* first offset >= i that holds no whitespace
WsEnd(s, i) ==
    MinOf({j \in i..(Len(s) - 1) : ~IsSpace(s[j + 1])} \cup {Len(s)})

\* /\$\[(\d+)\]/ tried at offset i: the offset after the match, or NONE
MatchRef(s, i) ==
    IF /\ CharAt(s, i) = "$"
       /\ CharAt(s, i + 1) = "["
       /\ IsDigit(CharAt(s, i + 2))
       /\ CharAt(s, DigitsEnd(s, i + 2)) = "]"
    THEN DigitsEnd(s, i + 2) + 1
    ELSE NONE

\* the number captured by a match of the reference pattern at offset i
RefNum(s, i) == ParseInt(Substring(s, i + 2, DigitsEnd(s, i + 2)))

\* /\$\[(\d+)\]:/ tried at offset i: the offset after the colon, or NONE
MatchDefHead(s, i) ==
    IF MatchRef(s, i) # NONE /\ CharAt(s, MatchRef(s, i)) = ":"
    THEN MatchRef(s, i) + 1
    ELSE NONE

\* \s*(.+ after the colon at p: where the body starts, the regex engine
\* giving whitespace back until "." finds a character that is no newline
BodyStart(s, p) ==
    LET e == WsEnd(s, p)
        back == {q \in p..(e - 1) : CharAt(s, q) # "\n"}
    IN  IF e < Len(s) THEN e
        ELSE IF back = {} THEN NONE
        ELSE CHOOSE q \in back : \A r \in back : r <= q

\* \n\s*$ under the m flag, tried at offset x
BlankThenEnd(s, x) ==
    /\ CharAt(s, x) = "\n"
    /\ LET e == WsEnd(s, x + 1)
       IN  e >= Len(s) \/ \E y \in (x + 1)..(e - 1) : CharAt(s, y) = "\n"

\* (?:\n(?!\$\[\d+\]:|\n\s*$).*)* from the end r of a body line: the
\* offset where the whole match ends
RECURSIVE BodyEnd(_, _)
BodyEnd(s, r) ==
    IF r >= Len(s) THEN r
    ELSE IF MatchDefHead(s, r + 1) # NONE \/ BlankThenEnd(s, r + 1) THEN r
    ELSE BodyEnd(s, LineEnd(s, r + 1))

\* a map insert that keeps the value a key already has
MapSetIfAbsent(map, k, v) ==
    [x \in (DOMAIN map) \cup {k} |-> IF x \in DOMAIN map THEN map[x] ELSE v]

\* Map.prototype.set
MapSet(map, k, v) ==
    [x \in (DOMAIN map) \cup {k} |-> IF x = k THEN v ELSE map[x]]

EmptyMap == [x \in {} |-> <<>>]

\* the offsets at which definitionPattern matches
DefinitionStarts(s) ==
    {i \in 0..(Len(s) - 1) :
        /\ s[i + 1] = "$"
        /\ MatchDefHead(s, i) # NONE
        /\ BodyStart(s, MatchDefHead(s, i)) # NONE}

\* the while loop over definitionPattern.exec(footnotesText): every exec
\* takes the leftmost match at or after lastIndex, the offsets left in at
RECURSIVE DefinitionLoop(_, _, _)
DefinitionLoop(s, at, map) ==
    IF at = {} THEN map
    ELSE LET i == MinOf(at)
             q == BodyStart(s, MatchDefHead(s, i))
             end == BodyEnd(s, LineEnd(s, q))
             num == RefNum(s, i)
             content == Trim(Substring(s, q, end))
         IN  DefinitionLoop(s, {j \in at : j >= end},
                            MapSet(map, num, content))

ParseDefinitions(s, map) == DefinitionLoop(s, DefinitionStarts(s), map)

\* the matches definitionPattern.exec returns one after the other: the
\* offset of each, its number and its trimmed body
RECURSIVE DefinitionMatchesFrom(_, _)
DefinitionMatchesFrom(s, at) ==
    IF at = {} THEN <<>>
    ELSE LET i == MinOf(at)
             q == BodyStart(s, MatchDefHead(s, i))
             end == BodyEnd(s, LineEnd(s, q))
         IN  <<[index |-> i, num |-> RefNum(s, i),
                content |-> Trim(Substring(s, q, end))]>>
                 \o DefinitionMatchesFrom(s, {j \in at : j >= end})

DefinitionMatches(s) == DefinitionMatchesFrom(s, DefinitionStarts(s))

\* the offsets at which referencePattern matches
ReferenceStarts(s) ==
    {i \in 0..(Len(s) - 1) : s[i + 1] = "$" /\ MatchRef(s, i) # NONE}

\* the while loop over referencePattern.exec(text): every exec takes the
\* leftmost match at or after lastIndex, the offsets left in at
RECURSIVE ReferenceLoop(_, _)
ReferenceLoop(s, at) ==
    IF at = {} THEN <<>>
    ELSE LET i == MinOf(at)
         IN  <<[match |-> Substring(s, i, MatchRef(s, i)),
                num |-> RefNum(s, i),
                index |-> i]>>
                 \o ReferenceLoop(s, {j \in at : j >= MatchRef(s, i)})

ScanReferences(s) == ReferenceLoop(s, ReferenceStarts(s))

\* references.sort((a, b) => a.index - b.index): a stable insertion sort
RECURSIVE InsertByIndex(_, _)
InsertByIndex(sorted, r) ==
    IF sorted = <<>> THEN <<r>>
    ELSE IF sorted[Len(sorted)].index <= r.index THEN Append(sorted, r)
    ELSE Append(InsertByIndex(SubSeq(sorted, 1, Len(sorted) - 1), r),
                sorted[Len(sorted)])

RECURSIVE SortReferences(_)
SortReferences(refs) ==
    IF refs = <<>> THEN <<>>
    ELSE InsertByIndex(SortReferences(SubSeq(refs, 1, Len(refs) - 1)),
                       refs[Len(refs)])

\* references.find((r) => r.num === a)?.index ?? 0
FirstIndexOf(references, a) ==
    IF \E k \in 1..Len(references) : references[k].num = a
    THEN references[CHOOSE k \in 1..Len(references) :
                        /\ references[k].num = a
                        /\ \A j \in 1..(k - 1) : references[j].num # a].index
    ELSE 0

\* Array.from(usedFootnotes).sort(by first occurrence): stable insertion sort
RECURSIVE InsertUsed(_, _, _)
InsertUsed(sorted, a, references) ==
    IF sorted = <<>> THEN <<a>>
    ELSE IF FirstIndexOf(references, sorted[Len(sorted)])
                <= FirstIndexOf(references, a)
    THEN Append(sorted, a)
    ELSE Append(InsertUsed(SubSeq(sorted, 1, Len(sorted) - 1), a, references),
                sorted[Len(sorted)])

RECURSIVE SortUsed(_, _)
SortUsed(used, references) ==
    IF used = <<>> THEN <<>>
    ELSE InsertUsed(SortUsed(SubSeq(used, 1, Len(used) - 1), references),
                    used[Len(used)], references)

\* Array.prototype.indexOf (0-based, -1 when absent)
IndexOf(seq, x) ==
    IF \E k \in 1..Len(seq) : seq[k] = x
    THEN (CHOOSE k \in 1..Len(seq) :
              seq[k] = x /\ \A j \in 1..(k - 1) : seq[j] # x) - 1
    ELSE -1

\* "Missing footnote definition for ${ref.num}"
MissingDefinition(num) ==
    <<"M", "i", "s", "s", "i", "n", "g", " ",
      "f", "o", "o", "t", "n", "o", "t", "e", " ",
      "d", "e", "f", "i", "n", "i", "t", "i", "o", "n", " ",
      "f", "o", "r", " ">> \o NumToString(num)

\* "{{fnref:${footnoteIndex}}}"
Placeholder(footnoteIndex) ==
    <<"{", "{", "f", "n", "r", "e", "f", ":">> \o NumToString(footnoteIndex)
        \o <<"}", "}">>

\* a resolver without the fallback text
DefinitionOrEmpty(defs, num) ==
    IF num \in DOMAIN defs THEN defs[num] ELSE <<>>

\* footnoteDefinitions.get(ref.num) || "Missing ..."
DefinitionOrMissing(defs, num) ==
    IF num \in DOMAIN defs /\ defs[num] # <<>> THEN defs[num]
    ELSE MissingDefinition(num)

\* a resolver that numbers a reference by the count of footnotes seen so far
FootnoteIndexBySize(used, references, num) == Len(used)

\* the position of ref.num in the final footnotes array
FootnoteIndex(used, references, num) ==
    IndexOf(SortUsed(used, references), num) + 1

\* the text with one reference replaced, at its offset shifted by `offset`
ReplaceAt(processedText, actualIndex, matchLen, replacement) ==
    Substring(processedText, 0, actualIndex) \o replacement
        \o Substring(processedText, actualIndex + matchLen, Len(processedText))

\* a resolver that forgets the running length delta
ActualIndexNoOffset(index, offset) == index

\* "the actual position accounting for previous replacements"
ActualIndex(index, offset) == index + offset

\* offset += replacement.length - ref.match.length
NextOffset(offset, replacementLen, matchLen) ==
    offset + replacementLen - matchLen

\* one call of the references.forEach callback
ResolveStep(st, ref, references, defs) ==
    LET isNew == \A k \in 1..Len(st.usedFootnotes) :
                     st.usedFootnotes[k] # ref.num
        used == IF isNew THEN Append(st.usedFootnotes, ref.num)
                ELSE st.usedFootnotes
        list == IF isNew
                THEN Append(st.footnotesList,
                            DefinitionOrMissing(defs, ref.num))
                ELSE st.footnotesList
        footnoteIndex == FootnoteIndex(used, references, ref.num)
        actualIndex == ActualIndex(ref.index, st.offset)
        replacement == Placeholder(footnoteIndex)
    IN  [processedText |->
             ReplaceAt(st.processedText, actualIndex, Len(ref.match),
                       replacement),
         offset |-> NextOffset(st.offset, Len(replacement), Len(ref.match)),
         usedFootnotes |-> used,
         footnotesList |-> list,
         indices |-> Append(st.indices, footnoteIndex)]

RECURSIVE ResolveLoop(_, _, _, _)
ResolveLoop(st, k, references, defs) ==
    IF k > Len(references) THEN st
    ELSE ResolveLoop(ResolveStep(st, references[k], references, defs),
                     k + 1, references, defs)

\* processFootnotes(commentaryText, footnotesText): its result
\* {processedText, footnotesList}, with the locals the claims speak of
processFootnotes(commentary, footnotes) ==
    LET defs == ParseDefinitions(footnotes, EmptyMap)
        references == SortReferences(ScanReferences(commentary))
        st == ResolveLoop([processedText |-> commentary, offset |-> 0,
                           usedFootnotes |-> <<>>, footnotesList |-> <<>>,
                           indices |-> <<>>],
                          1, references, defs)
    IN  [processedText |-> st.processedText,
         footnotesList |-> st.footnotesList,
         footnoteDefinitions |-> defs,
         references |-> references,
         indices |-> st.indices]

\* /\{\{fnref:(\d+)\}\}/ of the splicer, tried at offset i: the offset after
\* the match, or NONE
MatchPlaceholder(s, i) ==
    IF /\ Substring(s, i, i + 8) = <<"{", "{", "f", "n", "r", "e", "f", ":">>
       /\ IsDigit(CharAt(s, i + 8))
       /\ CharAt(s, DigitsEnd(s, i + 8)) = "}"
       /\ CharAt(s, DigitsEnd(s, i + 8) + 1) = "}"
    THEN DigitsEnd(s, i + 8) + 2
    ELSE NONE

\* the numbers the splicer's markers would carry for text s
PlaceholderIndices(s) ==
    {ParseInt(Substring(s, i + 8, DigitsEnd(s, i + 8))) :
        i \in {j \in 0..(Len(s) - 1) : MatchPlaceholder(s, j) # NONE}}

----------------------------------------------------------------------------
(* The footnote classifier: parseFootnoteContent *)

\* \w of /^(\w+):(.*)$/s
WordChars ==
    {Digits[i] : i \in 1..Len(Digits)} \cup {"_"}
        \cup {"a", "b", "c", "d", "e", "f", "g", "h", "i", "j", "k", "l", "m",
              "n", "o", "p", "q", "r", "s", "t", "u", "v", "w", "x", "y", "z"}
        \cup {"A", "B", "C", "D", "E", "F", "G", "H", "I", "J", "K", "L", "M",
              "N", "O", "P", "Q", "R", "S", "T", "U", "V", "W", "X", "Y", "Z"}

\* the keys of FOOTNOTE_TYPES
FootnoteTypeNames ==
    { <<"n", "o", "t", "e">>, <<"w", "a", "r", "n", "i", "n", "g">>,
      <<"i", "n", "f", "o">>,
      <<"r", "e", "f", "e", "r", "e", "n", "c", "e">>, <<"i", "d", "e", "a">>,
      <<"q", "u", "e", "s", "t", "i", "o", "n">> }

\* FOOTNOTE_TYPES is an object literal: a lookup by name also finds what it
\* inherits from Object.prototype, and all of it is truthy
ObjectPrototypeKeys ==
    { <<"c", "o", "n", "s", "t", "r", "u", "c", "t", "o", "r">>,
      <<"t", "o", "S", "t", "r", "i", "n", "g">>,
      <<"t", "o", "L", "o", "c", "a", "l", "e", "S", "t", "r", "i", "n", "g">>,
      <<"v", "a", "l", "u", "e", "O", "f">>,
      <<"h", "a", "s", "O", "w", "n", "P", "r", "o", "p", "e", "r", "t", "y">>,
      <<"i", "s", "P", "r", "o", "t", "o", "t", "y", "p", "e", "O", "f">>,
      <<"p", "r", "o", "p", "e", "r", "t", "y", "I", "s", "E", "n", "u", "m", "e", "r", "a", "b", "l", "e">>,
      <<"_", "_", "p", "r", "o", "t", "o", "_", "_">>,
      <<"_", "_", "d", "e", "f", "i", "n", "e", "G", "e", "t", "t", "e", "r", "_", "_">>,
      <<"_", "_", "d", "e", "f", "i", "n", "e", "S", "e", "t", "t", "e", "r", "_", "_">>,
      <<"_", "_", "l", "o", "o", "k", "u", "p", "G", "e", "t", "t", "e", "r", "_", "_">>,
      <<"_", "_", "l", "o", "o", "k", "u", "p", "S", "e", "t", "t", "e", "r", "_", "_">> }

\* FOOTNOTE_TYPES[name] is truthy
HasFootnoteType(name) == name \in FootnoteTypeNames \cup ObjectPrototypeKeys

\* (\w+), greedy, from offset 0: the offset after it
WordEnd(s) ==
    MinOf({j \in 0..(Len(s) - 1) : s[j + 1] \notin WordChars} \cup {Len(s)})

\* the same pattern without the s flag: "." stops at a newline, and "$"
\* matches at the end only
TypeMatchNoDotAll(s) ==
    IF /\ WordEnd(s) >= 1
       /\ CharAt(s, WordEnd(s)) = ":"
       /\ \A j \in 1..Len(s) : s[j] # "\n"
    THEN WordEnd(s)
    ELSE NONE

\* footnote.match(/^(\w+):(.*)$/s): the offset of the colon, or NONE
TypeMatch(s) ==
    IF WordEnd(s) >= 1 /\ CharAt(s, WordEnd(s)) = ":" THEN WordEnd(s) ELSE NONE

parseFootnoteContent(s) ==
    LET k == TypeMatch(s)
    IN  IF k # NONE /\ HasFootnoteType(Substring(s, 0, k))
        THEN [type |-> Substring(s, 0, k),
              content |-> Trim(Substring(s, k + 1, Len(s)))]
        ELSE [type |-> <<"n", "o", "t", "e">>, content |-> s]

----------------------------------------------------------------------------
(* The sectionizer: parseBlockContent *)

\* String.prototype.split(",")
SplitCommas(s) == SplitAt(s, 0, {j \in 0..(Len(s) - 1) : s[j + 1] = ","})

\* value.split(",").map((t) => t.trim())
TrimEach(parts) == [k \in 1..Len(parts) |-> Trim(parts[k])]

\* the two shapes of a metadata value
TagList(items) == [list |-> TRUE, text |-> <<>>, items |-> items]

Scalar(text) == [list |-> FALSE, text |-> text, items |-> <<>>]

\* \s* of the metadata pattern, greedy, from offset i: the offset after it
SpacesEnd(s, i) ==
    MinOf({j \in i..(Len(s) - 1) : ~IsSpace(s[j + 1])} \cup {Len(s)})

\* line.match(/^(\w+):\s*(.+)$/) on a line without line terminators: \s*
\* takes the whitespace after the colon and gives one character back when
\* nothing else is left for (.+)
MetaMatch(line) ==
    LET k == WordEnd(line)
        v == SpacesEnd(line, k + 1)
    IN  IF k >= 1 /\ CharAt(line, k) = ":" /\ Len(line) > k + 1
        THEN [matched |-> TRUE, key |-> Substring(line, 0, k),
              value |-> IF v < Len(line)
                        THEN Substring(line, v, Len(line))
                        ELSE Substring(line, Len(line) - 1, Len(line))]
        ELSE [matched |-> FALSE, key |-> <<>>, value |-> <<>>]

PROTO == <<"_", "_", "p", "r", "o", "t", "o", "_", "_">>

\* metadata[key] = value on an object literal: the key __proto__ names the
\* setter of the prototype, which ignores a string, and no property is made
MetadataSet(metadata, key, value) ==
    IF key = PROTO
    THEN metadata
    ELSE [x \in (DOMAIN metadata) \cup {key} |->
              IF x = key THEN value ELSE metadata[x]]

\* the metadata case of the switch
MetadataLine(metadata, line) ==
    LET m == MetaMatch(line)
    IN  IF ~m.matched THEN metadata
        ELSE IF m.key = <<"t", "a", "g", "s">>
        THEN MetadataSet(metadata, m.key,
                         TagList(TrimEach(SplitCommas(m.value))))
        ELSE MetadataSet(metadata, m.key, Scalar(Trim(m.value)))

\* the delimiter a line stands for when delimiters are whole lines
DelimiterOfExact(line) ==
    IF line = D_TEXT THEN "text"
    ELSE IF line = D_COMMENTARY THEN "commentary"
    ELSE IF line = D_FOOTNOTE THEN "footnote"
    ELSE IF line = D_METADATA THEN "metadata"
    ELSE ""

\* the four startsWith tests at the head of the loop, in their order
DelimiterOf(line) ==
    IF StartsWith(line, D_TEXT) THEN "text"
    ELSE IF StartsWith(line, D_COMMENTARY) THEN "commentary"
    ELSE IF StartsWith(line, D_FOOTNOTE) THEN "footnote"
    ELSE IF StartsWith(line, D_METADATA) THEN "metadata"
    ELSE ""

NoSections ==
    [originalText |-> <<>>, commentary |-> <<>>, footnotes |-> <<>>,
     metadata |-> <<>>, currentSection |-> ""]

\* one turn of a loop that appends the line without the newline
BlockStepNoNewline(st, line) ==
    IF DelimiterOf(line) # ""
    THEN [st EXCEPT !.currentSection = DelimiterOf(line)]
    ELSE IF st.currentSection = "text"
    THEN [st EXCEPT !.originalText = @ \o line]
    ELSE IF st.currentSection = "commentary"
    THEN [st EXCEPT !.commentary = @ \o line]
    ELSE IF st.currentSection = "footnote"
    THEN [st EXCEPT !.footnotes = @ \o line]
    ELSE IF st.currentSection = "metadata"
    THEN [st EXCEPT !.metadata = MetadataLine(@, line)]
    ELSE st

\* one turn of the loop over the lines
BlockStep(st, line) ==
    IF DelimiterOf(line) # ""
    THEN [st EXCEPT !.currentSection = DelimiterOf(line)]
    ELSE IF st.currentSection = "text"
    THEN [st EXCEPT !.originalText = @ \o line \o <<"\n">>]
    ELSE IF st.currentSection = "commentary"
    THEN [st EXCEPT !.commentary = @ \o line \o <<"\n">>]
    ELSE IF st.currentSection = "footnote"
    THEN [st EXCEPT !.footnotes = @ \o line \o <<"\n">>]
    ELSE IF st.currentSection = "metadata"
    THEN [st EXCEPT !.metadata = MetadataLine(@, line)]
    ELSE st

RECURSIVE BlockLoop(_, _)
BlockLoop(st, lines) ==
    IF lines = <<>> THEN st
    ELSE BlockLoop(BlockStep(st, lines[1]), Tail(lines))

parseBlockContent(src) ==
    LET st == BlockLoop(NoSections, SplitLines(src))
    IN  [originalText |-> st.originalText, commentary |-> st.commentary,
         footnotes |-> st.footnotes, metadata |-> st.metadata]

----------------------------------------------------------------------------
(* The render pass: processCommentaryBlock *)

\* an id that does not take the counter
BlockIdStatic(counter) ==
    <<"c", "o", "m", "m", "e", "n", "t", "a", "r", "y", "-", "b", "l", "o",
      "c", "k">>

\* `commentary-block-${this.blockCounter++}`
BlockId(counter) ==
    <<"c", "o", "m", "m", "e", "n", "t", "a", "r", "y", "-", "b", "l", "o",
      "c", "k", "-">>
        \o NumToString(counter)

\* the anchor that stands for one {{fnref:N}} of the processed text; num is
\* the digits as they stand in the text
Marker(blockId, num) ==
    [id |-> blockId \o <<"-", "r", "e", "f", "-">> \o num,
     href |-> <<"#">> \o blockId \o <<"-", "f", "o", "o", "t", "n", "o", "t", "e", "-">> \o num,
     target |-> blockId \o <<"-", "f", "o", "o", "t", "n", "o", "t", "e", "-">> \o num]

\* the matches of /\{\{fnref:(\d+)\}\}/g, from the offsets in at, in order
RECURSIVE MarkerLoop(_, _, _)
MarkerLoop(text, at, blockId) ==
    IF at = {} THEN <<>>
    ELSE LET i == MinOf(at)
         IN  <<Marker(blockId, Substring(text, i + 8, DigitsEnd(text, i + 8)))>>
                 \o MarkerLoop(text, at \ {i}, blockId)

\* the markers the body gets; the markdown renderer is taken to leave the
\* processed text in text nodes as it stands
renderCommentaryWithFootnotes(text, blockId) ==
    MarkerLoop(text,
               {j \in 0..(Len(text) - 1) : MatchPlaceholder(text, j) # NONE},
               blockId)

\* one turn of footnotesList.forEach: the list item of footnote index + 1
FootnoteItem(blockId, index, body) ==
    [id |-> blockId \o <<"-", "f", "o", "o", "t", "n", "o", "t", "e", "-">> \o NumToString(index + 1),
     num |-> NumToString(index + 1),
     type |-> parseFootnoteContent(body).type,
     content |-> parseFootnoteContent(body).content,
     backref |-> blockId \o <<"-", "r", "e", "f", "-">> \o NumToString(index + 1)]

FootnoteItems(blockId, footnotesList) ==
    [k \in 1..Len(footnotesList) |->
        FootnoteItem(blockId, k - 1, footnotesList[k])]

processCommentaryBlock(src, counter) ==
    LET blockId == BlockId(counter)
        p == parseBlockContent(src)
        r == processFootnotes(p.commentary, p.footnotes)
    IN  [parsed |-> p,
         resolved |-> r,
         rendered |->
             [blockId |-> blockId,
              markers |-> renderCommentaryWithFootnotes(r.processedText,
                                                        blockId),
              items |-> FootnoteItems(blockId, r.footnotesList)]]

----------------------------------------------------------------------------
(* The rendered tree and the splice: renderCommentaryWithFootnotes *)

NoAttrs ==
    [class |-> <<>>, id |-> <<>>, href |-> <<>>, target |-> <<>>,
     style |-> <<>>]

\* a node of the tree.  path says which node of the host-rendered tree it
\* is (the child indices from the top); a node the splice creates has
\* created = TRUE and the path of the leaf it was made for
TextNode(text, path, created) ==
    [kind |-> "text", name |-> <<>>, text |-> text, attrs |-> NoAttrs,
     children |-> <<>>, path |-> path, created |-> created]

Element(name, attrs, children, path, created) ==
    [kind |-> "element", name |-> name, text |-> <<>>, attrs |-> attrs,
     children |-> children, path |-> path, created |-> created]

\* a node that is neither text nor element
CommentNode(path) ==
    [kind |-> "comment", name |-> <<>>, text |-> <<>>, attrs |-> NoAttrs,
     children |-> <<>>, path |-> path, created |-> FALSE]

\* sup.footnote-ref > a[href, id] > "[num]", with the click target
MarkerNode(blockId, num, path) ==
    Element(<<"s", "u", "p">>,
            [NoAttrs EXCEPT !.class = <<"f", "o", "o", "t", "n", "o", "t", "e", "-", "r", "e", "f">>],
            <<Element(<<"a">>,
                      [NoAttrs EXCEPT
                          !.id = Marker(blockId, num).id,
                          !.href = Marker(blockId, num).href,
                          !.target = Marker(blockId, num).target],
                      <<TextNode(<<"[">> \o num \o <<"]">>, path, TRUE)>>,
                      path, TRUE)>>,
            path, TRUE)

\* the text before the match, when there is some
RunBefore(text, lastIndex, index, path) ==
    IF index > lastIndex
    THEN <<TextNode(Substring(text, lastIndex, index), path, TRUE)>>
    ELSE <<>>

\* a loop that stops at the last match
RECURSIVE FragmentLoopNoRest(_, _, _, _, _)
FragmentLoopNoRest(text, at, lastIndex, blockId, path) ==
    IF at = {}
    THEN <<>>
    ELSE LET i == MinOf(at)
             num == Substring(text, i + 8, DigitsEnd(text, i + 8))
         IN  RunBefore(text, lastIndex, i, path)
                 \o <<MarkerNode(blockId, num, path)>>
                 \o FragmentLoopNoRest(text, at \ {i},
                                       MatchPlaceholder(text, i),
                                       blockId, path)

\* the while loop over fnRefPattern.exec and the rest after the last match
RECURSIVE FragmentLoop(_, _, _, _, _)
FragmentLoop(text, at, lastIndex, blockId, path) ==
    IF at = {}
    THEN RunBefore(text, lastIndex, Len(text), path)
    ELSE LET i == MinOf(at)
             num == Substring(text, i + 8, DigitsEnd(text, i + 8))
         IN  RunBefore(text, lastIndex, i, path)
                 \o <<MarkerNode(blockId, num, path)>>
                 \o FragmentLoop(text, at \ {i}, MatchPlaceholder(text, i),
                                 blockId, path)

\* the offsets where /\{\{fnref:(\d+)\}\}/g matches
TokenStarts(text) ==
    {j \in 0..(Len(text) - 1) : MatchPlaceholder(text, j) # NONE}

Visit(node) == [path |-> node.path, created |-> node.created]

\* children.forEach over the list as it changes: the node at index k of
\* the parent's live child list is processed, whatever it is by then
RECURSIVE processNodeLive(_, _)
RECURSIVE ChildrenLive(_, _, _)
ChildrenLive(list, k, blockId) ==
    IF k > Len(list) THEN [nodes |-> list, visited |-> <<>>]
    ELSE LET r == processNodeLive(list[k], blockId)
             nlist == SubSeq(list, 1, k - 1) \o r.nodes
                          \o SubSeq(list, k + 1, Len(list))
             rest == ChildrenLive(nlist, k + 1, blockId)
         IN  [nodes |-> rest.nodes, visited |-> r.visited \o rest.visited]

processNodeLive(node, blockId) ==
    IF node.kind = "text"
    THEN [nodes |-> IF TokenStarts(node.text) # {}
                    THEN FragmentLoop(node.text, TokenStarts(node.text), 0,
                                      blockId, node.path)
                    ELSE <<node>>,
          visited |-> <<Visit(node)>>]
    ELSE IF node.kind = "element"
    THEN LET r == ChildrenLive(node.children, 1, blockId)
         IN  [nodes |-> <<[node EXCEPT !.children = r.nodes]>>,
              visited |-> <<Visit(node)>> \o r.visited]
    ELSE [nodes |-> <<node>>, visited |-> <<Visit(node)>>]

ProcessChildrenLive(children, blockId) == ChildrenLive(children, 1, blockId)

\* processNode(node): what stands in the node's place afterwards, and the
\* nodes the call and the calls below it were made for, in order
RECURSIVE processNode(_, _)
RECURSIVE ProcessChildren(_, _)
\* Array.from(node.childNodes).forEach(processNode) on the list taken
\* before the first child is processed
ProcessChildren(children, blockId) ==
    IF children = <<>> THEN [nodes |-> <<>>, visited |-> <<>>]
    ELSE LET r == processNode(children[1], blockId)
             rest == ProcessChildren(Tail(children), blockId)
         IN  [nodes |-> r.nodes \o rest.nodes,
              visited |-> r.visited \o rest.visited]

processNode(node, blockId) ==
    IF node.kind = "text"
    THEN [nodes |-> IF TokenStarts(node.text) # {}
                    THEN FragmentLoop(node.text, TokenStarts(node.text), 0,
                                      blockId, node.path)
                    ELSE <<node>>,
          visited |-> <<Visit(node)>>]
    ELSE IF node.kind = "element"
    THEN LET r == ProcessChildren(node.children, blockId)
         IN  [nodes |-> <<[node EXCEPT !.children = r.nodes]>>,
              visited |-> <<Visit(node)>> \o r.visited]
    ELSE [nodes |-> <<node>>, visited |-> <<Visit(node)>>]

\* the children of tempContainer processed one by one from the list taken
\* before, then moved to the container
SpliceTree(tempContainer, blockId) == ProcessChildren(tempContainer, blockId)

----------------------------------------------------------------------------
(* The footnote body made inline: processFootnoteContent *)

\* node.nodeName
NodeName(node) ==
    IF node.kind = "element" THEN node.name
    ELSE IF node.kind = "text" THEN <<"#", "t", "e", "x", "t">>
    ELSE <<"#", "c", "o", "m", "m", "e", "n", "t">>

\* document.createElement("br")
Br == Element(<<"B", "R">>, NoAttrs, <<>>, <<>>, TRUE)

\* blockquote.style.marginLeft, paddingLeft and borderLeft are set
Styled(node) == [node EXCEPT !.attrs.style = <<"1", "e", "m">>]

KeptNames == {<<"U", "L">>, <<"O", "L">>, <<"P", "R", "E">>}

\* a loop whose later paragraphs are treated as the first one is
RECURSIVE FlattenLoopAlwaysFirst(_, _, _)
FlattenLoopAlwaysFirst(src, target, isFirstParagraph) ==
    IF src = <<>> THEN [source |-> src, target |-> target]
    ELSE LET node == src[1]
         IN  IF NodeName(node) = <<"P">>
             THEN FlattenLoopAlwaysFirst(Tail(src), target \o node.children, TRUE)
             ELSE IF NodeName(node) \in KeptNames
             THEN FlattenLoopAlwaysFirst(Tail(src), target \o <<Br, node>>,
                                         isFirstParagraph)
             ELSE IF NodeName(node) = <<"B", "L", "O", "C", "K", "Q", "U", "O", "T", "E">>
             THEN FlattenLoopAlwaysFirst(Tail(src),
                                         target \o <<Br, Styled(node)>>,
                                         isFirstParagraph)
             ELSE FlattenLoopAlwaysFirst(Tail(src), Append(target, node),
                                         isFirstParagraph)

\* while (source.firstChild): one turn per top-level node; appendChild
\* takes the node out of where it was
RECURSIVE FlattenLoop(_, _, _)
FlattenLoop(src, target, isFirstParagraph) ==
    IF src = <<>> THEN [source |-> src, target |-> target]
    ELSE LET node == src[1]
         IN  IF NodeName(node) = <<"P">>
             THEN IF isFirstParagraph
                  THEN FlattenLoop(Tail(src), target \o node.children, FALSE)
                  ELSE FlattenLoop(Tail(src),
                                   target \o <<Br, Br>> \o node.children,
                                   FALSE)
             ELSE IF NodeName(node) \in KeptNames
             THEN FlattenLoop(Tail(src), target \o <<Br, node>>,
                              isFirstParagraph)
             ELSE IF NodeName(node) = <<"B", "L", "O", "C", "K", "Q", "U", "O", "T", "E">>
             THEN FlattenLoop(Tail(src), target \o <<Br, Styled(node)>>,
                              isFirstParagraph)
             ELSE FlattenLoop(Tail(src), Append(target, node),
                              isFirstParagraph)

processFootnoteContent(src, target) == FlattenLoop(src, target, TRUE)

----------------------------------------------------------------------------
(* The editor and the footnote command: handleFootnote *)

Origin == [line |-> 0, ch |-> 0]

NoPos == [line |-> NONE, ch |-> NONE]

\* DEFAULT_SETTINGS.defaultFootnoteType
DefaultFootnoteType == <<"n", "o", "t", "e">>

\* "$[${nextNumber}]"
ReferenceText(n) == <<"$", "[">> \o NumToString(n) \o <<"]">>

\* "$[${nextNumber}]: ${this.settings.defaultFootnoteType}:"
DefinitionTemplate(n) ==
    ReferenceText(n) \o <<":", " ">> \o DefaultFootnoteType \o <<":">>

\* Array.prototype.slice(a, b) on the lines
Slice(lines, a, b) ==
    LET lo == IF a > Len(lines) THEN Len(lines) ELSE a
        hi == IF b > Len(lines) THEN Len(lines) ELSE b
    IN  IF lo < hi THEN SubSeq(lines, lo + 1, hi) ELSE <<>>

\* the editor clips a position to the document
ClipPos(lines, pos) ==
    LET l == IF pos.line >= Len(lines) THEN Len(lines) - 1
             ELSE IF pos.line < 0 THEN 0 ELSE pos.line
        c == IF pos.line >= Len(lines) THEN Len(LineAt(lines, l))
             ELSE IF pos.ch > Len(LineAt(lines, l)) THEN Len(LineAt(lines, l))
             ELSE pos.ch
    IN  [line |-> l, ch |-> c]

PosBefore(p, q) == p.line < q.line \/ (p.line = q.line /\ p.ch <= q.ch)

\* editor.replaceSelection(text), text holding no newline: the lines and
\* the cursor afterwards
replaceSelection(lines, head, anc, text) ==
    LET from == IF PosBefore(head, anc) THEN head ELSE anc
        to == IF PosBefore(head, anc) THEN anc ELSE head
        first == LineAt(lines, from.line)
        lastLine == LineAt(lines, to.line)
        merged == Substring(first, 0, from.ch) \o text
                      \o Substring(lastLine, to.ch, Len(lastLine))
    IN  [doc |-> Slice(lines, 0, from.line) \o <<merged>>
                     \o Slice(lines, to.line + 1, Len(lines)),
         cursor |-> [line |-> from.line, ch |-> from.ch + Len(text)]]

\* isInFootnoteSection: the backward scan for a section marker
RECURSIVE isInFootnoteSection(_, _)
isInFootnoteSection(lines, i) ==
    IF i < 0 THEN FALSE
    ELSE IF StartsWith(LineAt(lines, i), D_FOOTNOTE) THEN TRUE
    ELSE IF \/ StartsWith(LineAt(lines, i), D_COMMENTARY)
            \/ StartsWith(LineAt(lines, i), D_TEXT)
            \/ StartsWith(LineAt(lines, i), D_METADATA)
    THEN FALSE
    ELSE IF StartsWith(LineAt(lines, i), FENCE) THEN FALSE
    ELSE isInFootnoteSection(lines, i - 1)

\* checkFootnoteNavigation: [found, number, inFootnoteSection]
checkFootnoteNavigation(lines, cur) ==
    LET currentLine == LineAt(lines, cur.line)
        refs == ScanReferences(currentLine)
        on == {k \in 1..Len(refs) :
                  /\ cur.ch >= refs[k].index
                  /\ cur.ch <= refs[k].index + Len(refs[k].match)}
    IN  IF MatchDefHead(currentLine, 0) # NONE
        THEN [found |-> TRUE, number |-> RefNum(currentLine, 0),
              inFootnoteSection |-> isInFootnoteSection(lines, cur.line)]
        ELSE IF on # {}
        THEN [found |-> TRUE,
              number |-> refs[CHOOSE k \in on : \A j \in on : k <= j].num,
              inFootnoteSection |-> isInFootnoteSection(lines, cur.line)]
        ELSE [found |-> FALSE, number |-> 0, inFootnoteSection |-> FALSE]

\* the numbers of all /\$\[(\d+)\]/g matches on one line
MarkersOnLine(line) == {RefNum(line, i) : i \in ReferenceStarts(line)}

\* footnoteRefs after the loop over the lines from .. stop - 1
MarkersOnLines(lines, from, stop) ==
    UNION {MarkersOnLine(LineAt(lines, i)) : i \in from..(stop - 1)}

\* Math.max(...footnoteRefs)
MaxOf(S) == CHOOSE m \in S : \A x \in S : x <= m

\* a scan that runs over the whole document instead of the block
getNextFootnoteNumberInDocument(lines, b) ==
    LET nums == MarkersOnLines(lines, 0, Len(lines))
    IN  IF nums # {} THEN MaxOf(nums) + 1 ELSE 1

getNextFootnoteNumberInBlock(lines, b) ==
    LET stop == IF b.endLine < Len(lines) THEN b.endLine ELSE Len(lines)
        nums == MarkersOnLines(lines, b.startLine, stop)
    IN  IF nums # {} THEN MaxOf(nums) + 1 ELSE 1

\* RegExp.prototype.exec for a literal pattern: the first offset of pat in
\* line, or NONE
FindLiteral(line, pat) ==
    LET at == {i \in 0..(Len(line) - Len(pat)) :
                  Substring(line, i, i + Len(pat)) = pat}
    IN  IF at = {} THEN NONE ELSE MinOf(at)

\* the loop over the lines from .. stop - 1 that returns at the first line
\* holding pat: that line, or NONE
FirstLineWith(lines, from, stop, pat) ==
    LET hits == {i \in from..(stop - 1) :
                    FindLiteral(LineAt(lines, i), pat) # NONE}
    IN  IF hits = {} THEN NONE ELSE MinOf(hits)

\* the same loop for a pattern anchored at the start of the line
FirstLineStarting(lines, from, stop, pat) ==
    LET hits == {i \in from..(stop - 1) : StartsWith(LineAt(lines, i), pat)}
    IN  IF hits = {} THEN NONE ELSE MinOf(hits)

\* a search that runs over the whole document instead of the footnote
\* section of the block
DefinitionSearchInDocument(lines, b, n) ==
    FirstLineStarting(lines, 0, Len(lines), ReferenceText(n) \o <<":">>)

\* navigateToFootnoteDefinition: the line of the definition, or NONE
DefinitionSearch(lines, b, n) ==
    IF b.footnoteStart # NONE /\ b.footnoteEnd # NONE
    THEN FirstLineStarting(lines, b.footnoteStart + 1, b.footnoteEnd,
                           ReferenceText(n) \o <<":">>)
    ELSE NONE

\* navigateToFootnoteReference: the line of the reference, or NONE
ReferenceSearch(lines, b, n) ==
    IF b.commentaryStart # NONE /\ b.commentaryEnd # NONE
    THEN FirstLineWith(lines, b.commentaryStart + 1, b.commentaryEnd,
                       ReferenceText(n))
    ELSE NONE

\* addFootnoteDefinitionToBlock: the document set and the position returned
addFootnoteDefinitionToBlock(lines, definition, b) ==
    IF b.footnoteStart # NONE
    THEN LET insertLine == IF b.footnoteEnd = NONE \/ b.footnoteEnd = 0
                           THEN b.endLine ELSE b.footnoteEnd
         IN  [doc |-> SplitLines(JoinLines(
                          Slice(lines, 0, insertLine) \o <<definition>>
                              \o Slice(lines, insertLine, Len(lines)))),
              position |-> [line |-> insertLine, ch |-> 0]]
    ELSE LET insertLine == b.endLine
         IN  [doc |-> SplitLines(JoinLines(
                          Slice(lines, 0, insertLine)
                              \o << <<>>, D_FOOTNOTE, definition >>
                              \o Slice(lines, insertLine, Len(lines)))),
              position |-> [line |-> insertLine + 2, ch |-> 0]]

\* what a command leaves behind: the editor state and what it saw
Outcome(op, lines, cur, anc, msg, b, n, mid, pos) ==
    [op |-> op, doc |-> lines, cursor |-> cur, anchor |-> anc,
     notice |-> msg, bounds |-> b, number |-> n, midDoc |-> mid,
     position |-> pos]

\* navigateToFootnoteDefinition(editor, footnoteNumber)
navigateToFootnoteDefinition(lines, cur, anc, n) ==
    LET b == getCurrentCommentaryBlockBounds(lines, cur.line)
        i == DefinitionSearch(lines, b, n)
        pos == [line |-> i, ch |-> Len(ReferenceText(n)) + 1]
    IN  IF IsNull(b)
        THEN Outcome("toDefinition", lines, cur, anc, "not in block",
                     b, n, lines, NoPos)
        ELSE IF i # NONE
        THEN Outcome("toDefinition", lines, pos, pos, "jumped",
                     b, n, lines, pos)
        ELSE Outcome("toDefinition", lines, cur, anc, "not found",
                     b, n, lines, NoPos)

\* navigateToFootnoteReference(editor, footnoteNumber)
navigateToFootnoteReference(lines, cur, anc, n) ==
    LET b == getCurrentCommentaryBlockBounds(lines, cur.line)
        i == ReferenceSearch(lines, b, n)
        pos == [line |-> i,
                ch |-> FindLiteral(LineAt(lines, i), ReferenceText(n))]
    IN  IF IsNull(b)
        THEN Outcome("toReference", lines, cur, anc, "not in block",
                     b, n, lines, NoPos)
        ELSE IF i # NONE
        THEN Outcome("toReference", lines, pos, pos, "jumped",
                     b, n, lines, pos)
        ELSE Outcome("toReference", lines, cur, anc, "not found",
                     b, n, lines, NoPos)

\* createNewFootnote(editor, cursor)
createNewFootnote(lines, cur, anc) ==
    LET b == getCurrentCommentaryBlockBounds(lines, cur.line)
        nextNumber == getNextFootnoteNumberInBlock(lines, b)
        replaced == replaceSelection(lines, cur, anc,
                                     ReferenceText(nextNumber))
        added == addFootnoteDefinitionToBlock(
                     replaced.doc, DefinitionTemplate(nextNumber), b)
        target == ClipPos(added.doc,
                          [line |-> added.position.line,
                           ch |-> added.position.ch
                                      + Len(DefinitionTemplate(nextNumber))])
    IN  IF IsNull(b)
        THEN Outcome("outside", lines, cur, anc, "place cursor",
                     b, 0, lines, NoPos)
        ELSE Outcome("create", added.doc, target, target, "created",
                     b, nextNumber, replaced.doc, added.position)

\* a command that inserts a reference although the cursor is in no block
handleFootnoteUnguarded(lines, cur, anc) ==
    LET b == getCurrentCommentaryBlockBounds(lines, cur.line)
        replaced == replaceSelection(lines, cur, anc, ReferenceText(1))
    IN  IF IsNull(b)
        THEN Outcome("outside", replaced.doc, replaced.cursor,
                     replaced.cursor, "place cursor", b, 0, lines, NoPos)
        ELSE createNewFootnote(lines, cur, anc)

\* handleFootnote(editor)
handleFootnote(lines, cur, anc) ==
    LET b == getCurrentCommentaryBlockBounds(lines, cur.line)
        nav == checkFootnoteNavigation(lines, cur)
    IN  IF IsNull(b)
        THEN Outcome("outside", lines, cur, anc, "place cursor",
                     b, 0, lines, NoPos)
        ELSE IF nav.found /\ nav.inFootnoteSection
        THEN navigateToFootnoteReference(lines, cur, anc, nav.number)
        ELSE IF nav.found
        THEN navigateToFootnoteDefinition(lines, cur, anc, nav.number)
        ELSE createNewFootnote(lines, cur, anc)

----------------------------------------------------------------------------
(* Inputs of the resolver *)

\* bounds of the enumerated inputs
MaxPieces == 3

MaxDefLines == 2

RECURSIVE Concat(_)
Concat(ss) == IF ss = <<>> THEN <<>> ELSE ss[1] \o Concat(Tail(ss))

Tuples(S, n) == UNION {[1..k -> S] : k \in 0..n}

CommentaryPieces ==
    { <<"$", "[", "1", "]">>,
      <<"$", "[", "2", "]">>,
      <<"$", "[", "1", "2", "]">>,
      <<"$", "[", "0", "1", "]">>,
      <<"$", "[">>,
      <<"a">>,
      <<"{", "{", "f", "n", "r", "e", "f", ":", "2", "}", "}">> }

Commentaries == {Concat(ps) : ps \in Tuples(CommentaryPieces, MaxPieces)}

DefinitionLines ==
    { <<"$", "[", "1", "]", ":", " ", "x">>,
      <<"$", "[", "2", "]", ":", "y">>,
      <<"z">> }

\* a footnote section as parseBlockContent builds it: every line + "\n"
RECURSIVE WithNewlines(_)
WithNewlines(ls) ==
    IF ls = <<>> THEN <<>>
    ELSE ls[1] \o <<"\n">> \o WithNewlines(Tail(ls))

FootnoteTexts ==
    {WithNewlines(ls) : ls \in Tuples(DefinitionLines, MaxDefLines)}

\* "See $[2] and $[1]. Also $[2]."
ScenarioACommentary ==
    <<"S", "e", "e", " ", "$", "[", "2", "]", " ", "a", "n", "d", " ",
      "$", "[", "1", "]", ".", " ", "A", "l", "s", "o", " ",
      "$", "[", "2", "]", ".">>

\* "$[1]: first\n$[2]: second\n"
ScenarioAFootnotes ==
    <<"$", "[", "1", "]", ":", " ", "f", "i", "r", "s", "t", "\n",
      "$", "[", "2", "]", ":", " ", "s", "e", "c", "o", "n", "d", "\n">>

\* "Claim $[5]."
ScenarioBCommentary ==
    <<"C", "l", "a", "i", "m", " ", "$", "[", "5", "]", ".">>

NoResult ==
    [processedText |-> <<>>, footnotesList |-> <<>>,
     footnoteDefinitions |-> EmptyMap, references |-> <<>>, indices |-> <<>>]

\* no command has run yet
NoCommand ==
    [op |-> "none", doc |-> <<>>, cursor |-> Origin, anchor |-> Origin,
     bounds |-> NullBounds, number |-> 0, midDoc |-> <<>>,
     position |-> NoPos, count |-> 0]

InitResolver ==
    /\ commentaryText \in
           Commentaries \cup {ScenarioACommentary, ScenarioBCommentary}
    /\ footnotesText \in FootnoteTexts \cup {ScenarioAFootnotes}
    /\ resolved = NoResult
    /\ NoRenderPass
    /\ pc = "input"
    /\ doc = <<>>
    /\ cursor = Origin
    /\ anchor = Origin
    /\ notice = ""
    /\ last = NoCommand
    /\ bounds = NullBounds

\* a render pass resolves the block's footnotes
ProcessFootnotes ==
    /\ pc = "input"
    /\ resolved' = processFootnotes(commentaryText, footnotesText)
    /\ pc' = "resolved"
    /\ UNCHANGED <<doc, cursor, anchor, notice, last, bounds,
                   commentaryText, footnotesText,
                   source, parsed, rendered, footnote, classified,
                   blockCounter, blockRegistry, passes, dom, flat>>

NextResolver == ProcessFootnotes

SpecResolver == InitResolver /\ [][NextResolver]_vars

----------------------------------------------------------------------------
(* Claims about the resolver *)

Range(seq) == {seq[k] : k \in 1..Len(seq)}

\* the position of the first reference that carries the number of reference k
FirstOccurrence(refs, k) ==
    CHOOSE j \in 1..k :
        refs[j].num = refs[k].num /\ \A i \in 1..(j - 1) : refs[i].num # refs[k].num

\* how many distinct numbers the references 1..k carry
DistinctUpTo(refs, k) == Cardinality({refs[j].num : j \in 1..k})

\* C1: walking the references in source order, each distinct number gets
\* the next display index at its first occurrence and keeps it at every
\* later one; the footnote list has one entry per distinct number, in order
\* of first reference (for $[a], $[b], $[a]: two footnotes, indices 1, 2, 1).
C1_FirstOccurrenceOrder ==
    pc = "resolved" =>
        LET refs == resolved.references
            idx == resolved.indices
        IN  /\ Len(idx) = Len(refs)
            /\ \A k \in 1..Len(refs) :
                   /\ idx[k] = DistinctUpTo(refs, FirstOccurrence(refs, k))
                   /\ idx[k] = idx[FirstOccurrence(refs, k)]
            /\ Len(resolved.footnotesList) = DistinctUpTo(refs, Len(refs))
            /\ (/\ Len(refs) = 3
                /\ refs[1].num = refs[3].num
                /\ refs[1].num # refs[2].num)
               => idx = <<1, 2, 1>> /\ Len(resolved.footnotesList) = 2

\* references $[a], $[b], $[a] with a > b, the definitions given in number
\* order: display index 1 goes to a, the first referenced
C1_Witness ==
    /\ pc = "resolved"
    /\ Len(resolved.references) = 3
    /\ resolved.references[1].num = resolved.references[3].num
    /\ resolved.references[1].num > resolved.references[2].num
    /\ resolved.indices = <<1, 2, 1>>
    /\ Len(resolved.footnotesList) = 2
    /\ resolved.footnotesList[1] = <<"y">>
    /\ resolved.footnotesList[2] = <<"x">>

\* the commentary rewritten in one left-to-right pass; seen lists the
\* numbers met so far, in order of first occurrence
RECURSIVE Rewritten(_, _, _)
Rewritten(s, i, seen) ==
    IF i >= Len(s) THEN <<>>
    ELSE IF MatchRef(s, i) = NONE
    THEN <<CharAt(s, i)>> \o Rewritten(s, i + 1, seen)
    ELSE LET n == RefNum(s, i)
             next == IF n \in Range(seen) THEN seen ELSE Append(seen, n)
             d == CHOOSE k \in 1..Len(next) : next[k] = n
         IN  <<"{", "{", "f", "n", "r", "e", "f", ":">> \o NumToString(d)
                 \o <<"}", "}">> \o Rewritten(s, MatchRef(s, i), next)

\* "See {{fnref:1}} and {{fnref:2}}. Also {{fnref:1}}."
ScenarioAProcessed ==
    <<"S", "e", "e", " ",
      "{", "{", "f", "n", "r", "e", "f", ":", "1", "}", "}",
      " ", "a", "n", "d", " ",
      "{", "{", "f", "n", "r", "e", "f", ":", "2", "}", "}",
      ".", " ", "A", "l", "s", "o", " ",
      "{", "{", "f", "n", "r", "e", "f", ":", "1", "}", "}", ".">>

\* C2: the placeholder text is the commentary with every $[N] replaced by
\* {{fnref:d}}, d the display index of N, and every other character kept in
\* place; scenario A gives "See {{fnref:1}} and {{fnref:2}}. Also
\* {{fnref:1}}." with the footnote list [second, first].
C2_PlaceholderText ==
    pc = "resolved" =>
        /\ resolved.processedText = Rewritten(commentaryText, 0, <<>>)
        /\ (commentaryText = ScenarioACommentary
                /\ footnotesText = ScenarioAFootnotes)
           => /\ resolved.processedText = ScenarioAProcessed
              /\ resolved.footnotesList =
                     << <<"s", "e", "c", "o", "n", "d">>,
                        <<"f", "i", "r", "s", "t">> >>

C2_Witness ==
    /\ pc = "resolved"
    /\ commentaryText = ScenarioACommentary
    /\ footnotesText = ScenarioAFootnotes
    /\ resolved.processedText = ScenarioAProcessed
    /\ Len(resolved.references) = 3

\* the distinct reference numbers that occur in a commentary
ReferenceNumbers(s) ==
    {RefNum(s, i) : i \in {j \in 0..(Len(s) - 1) : MatchRef(s, j) # NONE}}

\* C3: the footnote list has exactly N entries, N the number of distinct
\* reference numbers of the commentary; entry k is the footnote of display
\* index k; the placeholders of the placeholder text carry exactly the
\* indices 1..N; a definition never referenced contributes no entry.
C3_DenseIndices ==
    pc = "resolved" =>
        LET N == Cardinality(ReferenceNumbers(commentaryText))
            refs == resolved.references
        IN  /\ Len(resolved.footnotesList) = N
            /\ \A k \in 1..Len(refs) :
                   /\ resolved.indices[k] \in 1..N
                   /\ resolved.footnotesList[resolved.indices[k]] =
                          DefinitionOrMissing(resolved.footnoteDefinitions,
                                              refs[k].num)
            /\ PlaceholderIndices(resolved.processedText) = 1..N

\* "missing footnote definition for N", as the claim words it
MissingAsClaimed(n) ==
    <<"m", "i", "s", "s", "i", "n", "g", " ",
      "f", "o", "o", "t", "n", "o", "t", "e", " ",
      "d", "e", "f", "i", "n", "i", "t", "i", "o", "n", " ",
      "f", "o", "r", " ">> \o NumToString(n)

\* "Missing footnote definition for N", capitalised
MissingCapitalised(n) == <<"M">> \o Tail(MissingAsClaimed(n))

\* every reference whose number the definition mapping lacks has a slot in
\* the footnote list, and the slot's content is text(N)
UndefinedReferencesShow(text(_)) ==
    pc = "resolved" =>
        /\ \A k \in 1..Len(resolved.references) :
               LET n == resolved.references[k].num
                   d == resolved.indices[k]
               IN  n \notin DOMAIN resolved.footnoteDefinitions
                   => /\ d \in 1..Len(resolved.footnotesList)
                      /\ resolved.footnotesList[d] = text(n)
        /\ (commentaryText = ScenarioBCommentary /\ footnotesText = <<>>)
           => resolved.footnotesList = <<text(5)>>

\* C4 as stated: a reference without a definition still gets a display
\* slot, whose content is "missing footnote definition for N".
C4_AsClaimed == UndefinedReferencesShow(MissingAsClaimed)

\* C4: a reference whose number the definition mapping lacks still gets a
\* display slot, whose content is "Missing footnote definition for N".
C4_MissingDefinition == UndefinedReferencesShow(MissingCapitalised)

C4_Witness ==
    /\ pc = "resolved"
    /\ commentaryText = ScenarioBCommentary
    /\ footnotesText = <<>>
    /\ Len(resolved.footnotesList) = 1
    /\ resolved.indices = <<1>>

----------------------------------------------------------------------------
(* The locator on its own: documents of structural lines *)

MaxDocLines == 5

PlainLine == <<"a">>

LocatorLines ==
    {OPEN_FENCE, FENCE, D_METADATA, D_TEXT, D_COMMENTARY, D_FOOTNOTE,
     PlainLine}

LocatorDocs == Tuples(LocatorLines, MaxDocLines) \ {<<>>}

InitLocator ==
    /\ doc \in LocatorDocs
    /\ \E l \in 0..(MaxDocLines - 1) :
           /\ l < Len(doc)
           /\ cursor = [line |-> l, ch |-> 0]
    /\ anchor = cursor
    /\ bounds = NullBounds
    /\ pc = "input"
    /\ notice = ""
    /\ last = NoCommand
    /\ commentaryText = <<>>
    /\ footnotesText = <<>>
    /\ resolved = NoResult
    /\ NoRenderPass

\* a command asks for the bounds of the block around the cursor
Locate ==
    /\ pc = "input"
    /\ bounds' = getCurrentCommentaryBlockBounds(doc, cursor.line)
    /\ pc' = "located"
    /\ UNCHANGED <<doc, cursor, anchor, notice, last,
                   commentaryText, footnotesText, resolved,
                   source, parsed, rendered, footnote, classified,
                   blockCounter, blockRegistry, passes, dom, flat>>

NextLocator == Locate

SpecLocator == InitLocator /\ [][NextLocator]_vars

----------------------------------------------------------------------------
(* Claims about the locator *)

Delimiters == {D_METADATA, D_TEXT, D_COMMENTARY, D_FOOTNOTE}

IsDelimiterLine(line) == \E d \in Delimiters : StartsWith(line, d)

SectionStart(b, d) ==
    IF d = D_METADATA THEN b.metadataStart
    ELSE IF d = D_TEXT THEN b.textStart
    ELSE IF d = D_COMMENTARY THEN b.commentaryStart
    ELSE b.footnoteStart

SectionEnd(b, d) ==
    IF d = D_METADATA THEN b.metadataEnd
    ELSE IF d = D_TEXT THEN b.textEnd
    ELSE IF d = D_COMMENTARY THEN b.commentaryEnd
    ELSE b.footnoteEnd

\* the lines strictly inside the block
BlockLines(b) == (b.startLine + 1)..(b.endLine - 1)

\* the first delimiter line after line i inside the block, or the block end
NextDelimiterOrEnd(lines, b, i) ==
    LET later == {j \in BlockLines(b) :
                     j > i /\ IsDelimiterLine(LineAt(lines, j))}
    IN  IF later = {} THEN b.endLine
        ELSE CHOOSE j \in later : \A k \in later : j <= k

\* C5: for each section whose delimiter occurs in the block the locator
\* records a start, a line holding that delimiter, and an end, the line of
\* the next delimiter after it or the block end line.
C5_SectionEnds ==
    (pc = "located" /\ ~IsNull(bounds)) =>
        \A d \in Delimiters :
            (\E i \in BlockLines(bounds) : StartsWith(LineAt(doc, i), d))
            => /\ SectionStart(bounds, d) \in BlockLines(bounds)
               /\ StartsWith(LineAt(doc, SectionStart(bounds, d)), d)
               /\ SectionEnd(bounds, d) =
                      NextDelimiterOrEnd(doc, bounds, SectionStart(bounds, d))

\* C6: no section has an end without a start; every recorded start and end
\* lies within [startLine, endLine] with start <= end; the ranges
\* [start, end) of two different sections never overlap.
C6_BoundsWellFormed ==
    (pc = "located" /\ ~IsNull(bounds)) =>
        /\ \A d \in Delimiters :
               LET s == SectionStart(bounds, d)
                   e == SectionEnd(bounds, d)
               IN  /\ e # NONE => s # NONE
                   /\ s # NONE => s \in bounds.startLine..bounds.endLine
                   /\ e # NONE => e \in bounds.startLine..bounds.endLine
                   /\ (s # NONE /\ e # NONE) => s <= e
        /\ \A d1, d2 \in Delimiters :
               (/\ d1 # d2
                /\ SectionStart(bounds, d1) # NONE
                /\ SectionEnd(bounds, d1) # NONE
                /\ SectionStart(bounds, d2) # NONE
                /\ SectionEnd(bounds, d2) # NONE)
               => (SectionStart(bounds, d1)..(SectionEnd(bounds, d1) - 1))
                      \cap (SectionStart(bounds, d2)..(SectionEnd(bounds, d2) - 1))
                  = {}

\* the fence lines at or above line c, the cursor line counting only when
\* it opens a commentary block
FencesAbove(lines, c) ==
    {i \in 0..c :
        /\ StartsWith(LineAt(lines, i), FENCE)
        /\ (i < c \/ StartsWith(LineAt(lines, i), OPEN_FENCE))}

NearestFence(lines, c) ==
    CHOOSE i \in FencesAbove(lines, c) : \A j \in FencesAbove(lines, c) : j <= i

FencesAfter(lines, s) ==
    {j \in (s + 1)..(Len(lines) - 1) : StartsWith(LineAt(lines, j), FENCE)}

\* C7: the locator returns bounds exactly when the nearest fence at or
\* above the cursor is a block-open fence; startLine is that fence, endLine
\* the first fence line after it or the number of lines; startLine <= c <=
\* endLine.
C7_BlockExtent ==
    pc = "located" =>
        LET c == cursor.line
            inBlock == /\ FencesAbove(doc, c) # {}
                       /\ StartsWith(LineAt(doc, NearestFence(doc, c)),
                                     OPEN_FENCE)
        IN  /\ IsNull(bounds) <=> ~inBlock
            /\ ~IsNull(bounds) =>
                   /\ bounds.startLine = NearestFence(doc, c)
                   /\ bounds.endLine =
                          IF FencesAfter(doc, bounds.startLine) = {}
                          THEN Len(doc)
                          ELSE CHOOSE j \in FencesAfter(doc, bounds.startLine) :
                                   \A k \in FencesAfter(doc, bounds.startLine) :
                                       j <= k
                   /\ bounds.startLine <= c
                   /\ c <= bounds.endLine

\* the cursor on the closing fence of a terminated block
C7_Witness ==
    /\ pc = "located"
    /\ ~IsNull(bounds)
    /\ cursor.line = bounds.endLine
    /\ bounds.endLine < Len(doc)
    /\ bounds.startLine > 0

----------------------------------------------------------------------------
(* The footnote command on documents with content *)

MaxSections == 2

MaxCommands == 2

RefLine1 == <<"a", "$", "[", "1", "]">>

DefLine1 == <<"$", "[", "1", "]", ":", " ", "n">>

RefLine3 == <<"$", "[", "3", "]">>

SectionContents == {<<>>, <<RefLine1>>, <<DefLine1>>, <<RefLine3>>}

Sections ==
    {<<d>> \o c : d \in {D_COMMENTARY, D_FOOTNOTE, D_TEXT},
                  c \in SectionContents}

\* what stands between the open fence and the first delimiter
Heads == {<<>>, <<RefLine3, PlainLine>>}

Bodies ==
    {h \o Concat(ss) : h \in Heads, ss \in Tuples(Sections, MaxSections)}

\* another commentary block of the same document
OtherBlock ==
    <<OPEN_FENCE, D_COMMENTARY,
      <<"a", "$", "[", "9", "]", "$", "[", "1", "]">>,
      D_FOOTNOTE, DefLine1, FENCE>>

\* what stands before and after the block, the last line included: a block
\* may be the whole document, closed or not, or stand after or before
\* another block, or between a fenced block of another kind and plain text
Surroundings ==
    { << <<>>, <<FENCE>> >>, << <<>>, <<>> >>,
      <<OtherBlock, <<FENCE>> >>, << <<>>, <<FENCE>> \o OtherBlock>>,
      << <<FENCE, RefLine1, FENCE>>, <<FENCE, PlainLine>> >> }

EditorDocs ==
    {sur[1] \o <<OPEN_FENCE>> \o body \o sur[2] :
        sur \in Surroundings, body \in Bodies}

CursorColumns == {0, 2}

MaxEditorLines == 2 + 3 * MaxSections + 7

Init ==
    /\ doc \in EditorDocs
    /\ \E l \in 0..MaxEditorLines, c \in CursorColumns :
           /\ l < Len(doc)
           /\ c <= Len(LineAt(doc, l))
           /\ cursor = [line |-> l, ch |-> c]
    /\ \/ anchor = cursor
       \/ /\ cursor.line > 0
          /\ cursor.ch = 0
          /\ anchor = [line |-> cursor.line - 1, ch |-> 0]
    /\ notice = ""
    /\ last = NoCommand
    /\ bounds = NullBounds
    /\ pc = "editing"
    /\ commentaryText = <<>>
    /\ footnotesText = <<>>
    /\ resolved = NoResult
    /\ NoRenderPass

\* the user runs the command "Insert/Navigate Footnote"
HandleFootnote ==
    /\ pc = "editing"
    /\ last.count < MaxCommands
    /\ LET r == handleFootnote(doc, cursor, anchor)
       IN  /\ doc' = r.doc
           /\ cursor' = r.cursor
           /\ anchor' = r.anchor
           /\ notice' = r.notice
           /\ last' = [op |-> r.op, doc |-> doc, cursor |-> cursor,
                       anchor |-> anchor, bounds |-> r.bounds,
                       number |-> r.number, midDoc |-> r.midDoc,
                       position |-> r.position, count |-> last.count + 1]
    /\ UNCHANGED <<bounds, pc, commentaryText, footnotesText, resolved,
                   source, parsed, rendered, footnote, classified,
                   blockCounter, blockRegistry, passes, dom, flat>>

Next == HandleFootnote

Spec == Init /\ [][Next]_vars

----------------------------------------------------------------------------
(* Claims about the footnote command *)

\* the block around line c, read off the fences: [s, e]
BlockOf(lines, c) ==
    LET s == NearestFence(lines, c)
    IN  [s |-> s,
         e |-> IF FencesAfter(lines, s) = {} THEN Len(lines)
               ELSE MinOf(FencesAfter(lines, s))]

\* the marker numbers on the lines from <= i < to
NumbersOnLines(lines, from, to) ==
    UNION {ReferenceNumbers(LineAt(lines, i)) : i \in from..(to - 1)}

\* C8: the number allocated for a new footnote is 1 + the largest N over
\* the $[N] markers on the lines startLine <= i < endLine of the live
\* document, or 1 when those lines hold none; a block holding only $[1] and
\* $[3] gives 4, and markers outside the block do not count.
C8_NextNumber ==
    last.op = "create" =>
        LET blk == BlockOf(last.doc, last.cursor.line)
            inBlock == NumbersOnLines(last.doc, blk.s, blk.e)
        IN  /\ last.bounds.startLine = blk.s
            /\ last.bounds.endLine = blk.e
            /\ inBlock = {} => last.number = 1
            /\ inBlock # {} =>
                   /\ last.number - 1 \in inBlock
                   /\ \A n \in inBlock : n <= last.number - 1
            /\ inBlock = {1, 3} => last.number = 4

\* a block holding $[1] and $[3] only, beside a block holding $[9]
C8_Witness ==
    /\ last.op = "create"
    /\ NumbersOnLines(last.doc, last.bounds.startLine, last.bounds.endLine)
           = {1, 3}
    /\ 9 \in NumbersOnLines(last.doc, 0, Len(last.doc))
    /\ last.number = 4

\* new is old with the lines ls inserted before line k
InsertedAt(new, old, k, ls) ==
    /\ k \in 0..Len(old)
    /\ new = SubSeq(old, 1, k) \o ls \o SubSeq(old, k + 1, Len(old))

\* C9: with a footnote section in the bounds, the document after the
\* insertion is the one before it with the definition line inserted at the
\* section's recorded end line, which is the position reported; without
\* one, it is the one before with an empty line, the footnote delimiter and
\* the definition inserted at the block's end line, the position reported
\* being end line + 2; the line at the reported position is the definition.
C9_DefinitionInserted ==
    last.op = "create" =>
        LET b == last.bounds
            definition == DefinitionTemplate(last.number)
        IN  /\ b.footnoteStart # NONE =>
                   /\ b.footnoteEnd # NONE
                   /\ InsertedAt(doc, last.midDoc, b.footnoteEnd,
                                 <<definition>>)
                   /\ last.position = [line |-> b.footnoteEnd, ch |-> 0]
            /\ b.footnoteStart = NONE =>
                   /\ InsertedAt(doc, last.midDoc, b.endLine,
                                 << <<>>, D_FOOTNOTE, definition >>)
                   /\ last.position = [line |-> b.endLine + 2, ch |-> 0]
            /\ last.position.line < Len(doc)
            /\ LineAt(doc, last.position.line) = definition

\* line i lies strictly inside a section opened by delimiter d of the block
InSection(lines, blk, i, d) ==
    /\ i \in (blk.s + 1)..(blk.e - 1)
    /\ ~IsDelimiterLine(LineAt(lines, i))
    /\ \E j \in (blk.s + 1)..(i - 1) :
           /\ StartsWith(LineAt(lines, j), d)
           /\ \A k \in (j + 1)..(i - 1) : ~IsDelimiterLine(LineAt(lines, k))

Contains(line, pat) ==
    \E i \in 0..(Len(line) - Len(pat)) : Substring(line, i, i + Len(pat)) = pat

\* the lines a navigation for number n may land on: for a jump to the
\* reference, the lines of the block's commentary section that contain
\* $[n]; for a jump to the definition, the lines of its footnote section
\* that begin with $[n]:
Targets(op, lines, blk, n) ==
    IF op = "toReference"
    THEN {i \in 0..(Len(lines) - 1) :
             /\ InSection(lines, blk, i, D_COMMENTARY)
             /\ Contains(LineAt(lines, i), ReferenceText(n))}
    ELSE {i \in 0..(Len(lines) - 1) :
             /\ InSection(lines, blk, i, D_FOOTNOTE)
             /\ StartsWith(LineAt(lines, i), ReferenceText(n) \o <<":">>)}

\* C10: a navigation started on a definition of N in the footnote section
\* looks for the reference, one started on a reference in the commentary
\* section looks for the definition; the cursor moves only to a line
\* strictly inside the commentary section of its own block that contains
\* $[N], respectively strictly inside the footnote section of its own block
\* that begins with $[N]:; when that section holds no such line the command
\* reports not-found and leaves text, cursor and selection as they were,
\* whatever the rest of the document holds.
C10_BlockScoped ==
    /\ last.op \in {"toReference", "toDefinition"} =>
           LET blk == BlockOf(last.doc, last.cursor.line)
               targets == Targets(last.op, last.doc, blk, last.number)
           IN  /\ doc = last.doc
               /\ notice \in {"jumped", "not found"}
               /\ notice = "jumped" =>
                      /\ cursor.line \in targets
                      /\ anchor = cursor
               /\ notice = "not found" =>
                      /\ cursor = last.cursor
                      /\ anchor = last.anchor
               /\ targets = {} => notice = "not found"
    /\ last.op \in {"toReference", "toDefinition", "create"} =>
           LET blk == BlockOf(last.doc, last.cursor.line)
               line == LineAt(last.doc, last.cursor.line)
               c == last.cursor.line
           IN  /\ (/\ InSection(last.doc, blk, c, D_FOOTNOTE)
                   /\ MatchDefHead(line, 0) # NONE)
                  => /\ last.op = "toReference"
                     /\ last.number = RefNum(line, 0)
               /\ (/\ InSection(last.doc, blk, c, D_COMMENTARY)
                   /\ MatchDefHead(line, 0) = NONE
                   /\ \E i \in 0..(Len(line) - 1) :
                          /\ MatchRef(line, i) # NONE
                          /\ last.cursor.ch \in i..MatchRef(line, i))
                  => last.op = "toDefinition"

\* the definition of N is missing from the cursor's block while another
\* block of the document holds a line that begins with $[N]:
C10_Witness ==
    /\ last.op = "toDefinition"
    /\ notice = "not found"
    /\ cursor = last.cursor
    /\ \E i \in 0..(Len(doc) - 1) :
           /\ StartsWith(LineAt(doc, i), ReferenceText(last.number) \o <<":">>)
           /\ i \notin (last.bounds.startLine)..(last.bounds.endLine)

\* the cursor line lies in a commentary block, read off the fences
InCommentaryBlock(lines, c) ==
    /\ FencesAbove(lines, c) # {}
    /\ StartsWith(LineAt(lines, NearestFence(lines, c)), OPEN_FENCE)

\* C11: a command run with the cursor on a line outside every commentary
\* block (plain text, or a line of another fenced block) only shows the
\* advisory: text, cursor and selection are as before the command.
C11_OutsideNoChange ==
    (last.op # "none" /\ ~InCommentaryBlock(last.doc, last.cursor.line)) =>
        /\ last.op = "outside"
        /\ notice = "place cursor"
        /\ doc = last.doc
        /\ cursor = last.cursor
        /\ anchor = last.anchor

\* the cursor on a reference inside a fenced block of another kind
C11_Witness ==
    /\ last.op = "outside"
    /\ notice = "place cursor"
    /\ FencesAbove(last.doc, last.cursor.line) # {}
    /\ MatchRef(LineAt(last.doc, last.cursor.line), 1) # NONE
    /\ last.cursor.ch = 2
    /\ doc = last.doc

\* a fence line or a section delimiter line
IsStructuralLine(line) == StartsWith(line, FENCE) \/ IsDelimiterLine(line)

\* the fence and delimiter lines of a document, in order
StructuralLines(lines) == SelectSeq(lines, IsStructuralLine)

\* a is b with some elements left out
RECURSIVE IsSubsequence(_, _)
IsSubsequence(a, b) ==
    IF a = <<>> THEN TRUE
    ELSE IF b = <<>> THEN FALSE
    ELSE IF Head(a) = Head(b) THEN IsSubsequence(Tail(a), Tail(b))
    ELSE IsSubsequence(a, Tail(b))

\* C12: after a footnote was created, every line that was a fence line or
\* a section delimiter line is still in the document, unmodified and in
\* the same order, wherever in the block the cursor stood.
C12_StructureKept ==
    last.op = "create" =>
        IsSubsequence(StructuralLines(last.doc), StructuralLines(doc))

----------------------------------------------------------------------------
(* The resolver on footnote sections of several lines *)

MaxSectionLines == 3

\* the lines a footnote section is built from: definitions of 1 with two
\* bodies, a definition without a space, a plain line, an empty line, a
\* definition with nothing after the colon, and a marker inside a line
SectionLines ==
    { <<"$", "[", "1", "]", ":", " ", "x">>,
      <<"$", "[", "1", "]", ":", " ", "w">>,
      <<"$", "[", "2", "]", ":", "y">>,
      <<"z">>,
      <<>>,
      <<"$", "[", "3", "]", ":">>,
      <<"z", " ", "$", "[", "2", "]", ":", " ", "m">> }

FootnoteSections ==
    {WithNewlines(ls) : ls \in Tuples(SectionLines, MaxSectionLines)}

\* "$[1] $[2] $[3]" and "$[3]$[1]"
SectionCommentaries ==
    { <<"$", "[", "1", "]", " ", "$", "[", "2", "]", " ", "$", "[", "3", "]">>,
      <<"$", "[", "3", "]", "$", "[", "1", "]">> }

InitSections ==
    /\ commentaryText \in SectionCommentaries
    /\ footnotesText \in FootnoteSections
    /\ resolved = NoResult
    /\ NoRenderPass
    /\ pc = "input"
    /\ doc = <<>>
    /\ cursor = Origin
    /\ anchor = Origin
    /\ notice = ""
    /\ last = NoCommand
    /\ bounds = NullBounds

SpecSections == InitSections /\ [][NextResolver]_vars

\* the lines of a footnote section, the last newline closing the last line
SectionLinesOf(s) ==
    IF s = <<>> THEN <<>>
    ELSE LET ls == SplitLines(s)
         IN  IF s[Len(s)] = "\n" THEN SubSeq(ls, 1, Len(ls) - 1) ELSE ls

\* the number N of a line that begins with $[N]:, or NONE
DefinedOnLine(line) ==
    IF MatchDefHead(line, 0) # NONE THEN RefNum(line, 0) ELSE NONE

\* the lines of the section that begin with $[n]:, as 1-based positions
DefinitionLinesFor(ls, n) == {i \in 1..Len(ls) : DefinedOnLine(ls[i]) = n}

\* the body of the definition on line i: the text after the colon and the
\* following lines up to the next line that begins with a definition, with
\* the whitespace around it removed
BodyOfLine(ls, i) ==
    LET stops == {j \in (i + 1)..Len(ls) : DefinedOnLine(ls[j]) # NONE}
        stop == IF stops = {} THEN Len(ls) + 1 ELSE MinOf(stops)
        first == Substring(ls[i], MatchDefHead(ls[i], 0), Len(ls[i]))
    IN  Trim(JoinLines(<<first>> \o SubSeq(ls, i + 1, stop - 1)))

\* what a reference to n resolves to
ResolvedBody(n) ==
    LET k == CHOOSE j \in 1..Len(resolved.references) :
                 resolved.references[j].num = n
    IN  resolved.footnotesList[resolved.indices[k]]

IsReferenced(n) ==
    \E j \in 1..Len(resolved.references) : resolved.references[j].num = n

\* every line of the section is a definition with text after the colon
OneLineDefinitions(ls) ==
    \A i \in 1..Len(ls) :
        /\ DefinedOnLine(ls[i]) # NONE
        /\ Trim(Substring(ls[i], MatchDefHead(ls[i], 0), Len(ls[i]))) # <<>>

NumbersDefined(ls) == {DefinedOnLine(ls[i]) : i \in 1..Len(ls)} \ {NONE}

\* C14: the mapping assigns a body to N exactly when a line of the section
\* begins with $[N]:, and the body is the text after the colon with the
\* following lines up to the next line that begins with a definition or to
\* the end of the section (compared with the whitespace around it removed).
C14_DefinitionBodies ==
    pc = "resolved" =>
        LET ls == SectionLinesOf(footnotesText)
            defs == resolved.footnoteDefinitions
        IN  /\ DOMAIN defs = NumbersDefined(ls)
            /\ \A n \in DOMAIN defs :
                   \E i \in DefinitionLinesFor(ls, n) :
                       defs[n] = BodyOfLine(ls, i)

----------------------------------------------------------------------------
(* The classifier on footnote bodies *)

MaxRestPieces == 3

\* what a body starts with: the six type names, names the prototype of an
\* object knows, other identifiers, nothing
BodyPrefixes ==
    FootnoteTypeNames
        \cup { <<"c", "o", "n", "s", "t", "r", "u", "c", "t", "o", "r">>,
               <<"t", "o", "S", "t", "r", "i", "n", "g">>,
               <<"o", "t", "h", "e", "r">>, <<"N", "o", "t", "e">>, <<>> }

BodySeparators == { <<":">>, <<>>, <<" ", ":">> }

RestPieces == { <<" ", "x">>, <<"\n">>, <<"x", " ">>, <<":">> }

BodyRests == {Concat(ps) : ps \in Tuples(RestPieces, MaxRestPieces)}

FootnoteBodies ==
    {p \o sep \o r : p \in BodyPrefixes, sep \in BodySeparators,
                     r \in BodyRests}

InitClassifier ==
    /\ footnote \in FootnoteBodies
    /\ classified = NoClassification
    /\ blockCounter = 0
    /\ blockRegistry = NoBlocks
    /\ passes = NoPasses
    /\ dom = NoDom
    /\ flat = NoFlat
    /\ source = <<>>
    /\ parsed = NoParse
    /\ rendered = NoRender
    /\ pc = "input"
    /\ commentaryText = <<>>
    /\ footnotesText = <<>>
    /\ resolved = NoResult
    /\ doc = <<>>
    /\ cursor = Origin
    /\ anchor = Origin
    /\ notice = ""
    /\ last = NoCommand
    /\ bounds = NullBounds

\* a footnote of the list is classified while the list is rendered
ParseFootnoteContent ==
    /\ pc = "input"
    /\ classified' = parseFootnoteContent(footnote)
    /\ pc' = "classified"
    /\ UNCHANGED <<doc, cursor, anchor, notice, last, bounds,
                   commentaryText, footnotesText, resolved,
                   source, parsed, rendered, footnote,
                   blockCounter, blockRegistry, passes, dom, flat>>

NextClassifier == ParseFootnoteContent

SpecClassifier == InitClassifier /\ [][NextClassifier]_vars

\* the body begins with one of the six type names and a colon
TypedBody(body) ==
    \E t \in FootnoteTypeNames : StartsWith(body, t \o <<":">>)

\* C15: a body that does not begin with one of the six type names and a
\* colon, whatever identifier it begins with, is classified as a note with
\* the whole body as its content.
C15_UnknownPrefixIsNote ==
    (pc = "classified" /\ ~TypedBody(footnote)) =>
        /\ classified.type = <<"n", "o", "t", "e">>
        /\ classified.content = footnote

\* c is r without the whitespace at its two ends
IsTrimOf(c, r) ==
    \E a \in 0..Len(r) :
        \E b \in a..Len(r) :
            /\ c = SubSeq(r, a + 1, b)
            /\ \A i \in 1..a : IsSpace(r[i])
            /\ \A i \in (b + 1)..Len(r) : IsSpace(r[i])
            /\ c # <<>> => ~IsSpace(c[1]) /\ ~IsSpace(c[Len(c)])

\* C16: a body T:R with T one of the six type names is classified as T,
\* and the content is R without the whitespace at its two ends and with
\* nothing else removed, also when R holds newlines.
C16_TypedBody ==
    pc = "classified" =>
        \A t \in FootnoteTypeNames :
            StartsWith(footnote, t \o <<":">>)
            => /\ classified.type = t
               /\ IsTrimOf(classified.content,
                           Substring(footnote, Len(t) + 1, Len(footnote)))

\* "warning: x\nx ": the content keeps the newline and the colon-free text
C16_Witness ==
    /\ pc = "classified"
    /\ footnote = <<"w", "a", "r", "n", "i", "n", "g", ":", " ", "x", "\n", "x", " ">>
    /\ classified.type = <<"w", "a", "r", "n", "i", "n", "g">>
    /\ classified.content = <<"x", "\n", "x">>

----------------------------------------------------------------------------
(* The render pass on raw blocks *)

MaxSourceLines == 4

MaxRenders == 2

\* the lines of a raw block: the four delimiters, a line that only starts
\* with one, commentary with references and with the text of a marker, a
\* typed definition, an empty line, and lines as they stand in metadata
SourceLines ==
    { D_TEXT,
      D_COMMENTARY,
      D_FOOTNOTE,
      D_METADATA,
      D_TEXT \o <<"x">>,
      <<"a", "$", "[", "1", "]">>,
      <<"{", "{", "f", "n", "r", "e", "f", ":", "2", "}", "}", "$", "[",
        "2", "]">>,
      <<"$", "[", "1", "]", ":", " ", "w", "a", "r", "n", "i", "n", "g",
        ":", " ", "w">>,
      <<>>,
      <<"t", "a", "g", "s", ":", " ", "a", " ", ",", " ", "b">>,
      <<"_", "_", "p", "r", "o", "t", "o", "_", "_", ":", " ", "x">>,
      <<"k", ":">>,
      <<"t", ":", " ", " ", "v", " ">> }

BlockSources == {JoinLines(ls) : ls \in Tuples(SourceLines, MaxSourceLines)}

InitBlocks ==
    /\ source \in BlockSources
    /\ parsed = NoParse
    /\ rendered = NoRender
    /\ footnote = <<>>
    /\ classified = NoClassification
    /\ blockCounter = 0
    /\ blockRegistry = NoBlocks
    /\ passes = NoPasses
    /\ dom = NoDom
    /\ flat = NoFlat
    /\ commentaryText = <<>>
    /\ footnotesText = <<>>
    /\ resolved = NoResult
    /\ pc = "input"
    /\ doc = <<>>
    /\ cursor = Origin
    /\ anchor = Origin
    /\ notice = ""
    /\ last = NoCommand
    /\ bounds = NullBounds

\* the block is rendered, and rendered again when the view is refreshed
ProcessCommentaryBlock ==
    /\ blockCounter < MaxRenders
    /\ LET out == processCommentaryBlock(source, blockCounter)
       IN  /\ parsed' = out.parsed
           /\ resolved' = out.resolved
           /\ rendered' = out.rendered
    /\ commentaryText' = parsed'.commentary
    /\ footnotesText' = parsed'.footnotes
    /\ blockRegistry' = MapSet(blockRegistry, rendered'.blockId, parsed')
    /\ passes' = [issued |-> Append(passes.issued, rendered'.blockId),
                  live |-> passes.live + 1]
    /\ blockCounter' = blockCounter + 1
    /\ pc' = "rendered"
    /\ UNCHANGED <<doc, cursor, anchor, notice, last, bounds,
                   source, footnote, classified, dom, flat>>

NextBlocks == ProcessCommentaryBlock

SpecBlocks == InitBlocks /\ [][NextBlocks]_vars

\* the delimiter of each kind of section
DelimiterText ==
    [k \in {"text", "commentary", "footnote", "metadata"} |->
        IF k = "text" THEN D_TEXT
        ELSE IF k = "commentary" THEN D_COMMENTARY
        ELSE IF k = "footnote" THEN D_FOOTNOTE
        ELSE D_METADATA]

\* the kind of delimiter a line is, or "": the line is the delimiter
KindExactly(line) ==
    IF \E k \in DOMAIN DelimiterText : line = DelimiterText[k]
    THEN CHOOSE k \in DOMAIN DelimiterText : line = DelimiterText[k]
    ELSE ""

\* the kind of delimiter a line is, or "": the line begins with the delimiter
KindStarting(line) ==
    IF \E k \in DOMAIN DelimiterText : StartsWith(line, DelimiterText[k])
    THEN CHOOSE k \in DOMAIN DelimiterText :
             StartsWith(line, DelimiterText[k])
    ELSE ""

\* the section line i of ls lies in: the kind of the nearest delimiter above
SectionAbove(ls, i, Kind(_)) ==
    LET above == {j \in 1..(i - 1) : Kind(ls[j]) # ""}
    IN  IF above = {} THEN "" ELSE Kind(ls[MaxOf(above)])

\* the lines of the section of kind k, each followed by a newline
RoutedBody(ls, k, Kind(_)) ==
    Concat([i \in 1..Len(ls) |->
               IF Kind(ls[i]) = "" /\ SectionAbove(ls, i, Kind) = k
               THEN ls[i] \o <<"\n">>
               ELSE <<>>])

Routed(ls, Kind(_)) ==
    /\ parsed.originalText = RoutedBody(ls, "text", Kind)
    /\ parsed.commentary = RoutedBody(ls, "commentary", Kind)
    /\ parsed.footnotes = RoutedBody(ls, "footnote", Kind)

\* C17, as stated: a line that is exactly one of the four delimiters
\* switches the section and goes to no body; every other line goes, with a
\* newline, to the body of the section the nearest delimiter above opened;
\* lines above the first delimiter are dropped.
C17_ExactRouting ==
    pc = "rendered" => Routed(SplitLines(source), KindExactly)

\* C17, amended: a line that begins with one of the four delimiters
\* switches the section and goes to no body; every other line goes, with a
\* newline, to the body of the section the nearest delimiter above opened;
\* lines above the first delimiter are dropped; a block with the
\* commentary delimiter only has no original text and no metadata.
C17_PrefixRouting ==
    pc = "rendered" =>
        /\ Routed(SplitLines(source), KindStarting)
        /\ (\A i \in 1..Len(SplitLines(source)) :
                KindStarting(SplitLines(source)[i]) \in {"", "commentary"})
           => parsed.originalText = <<>> /\ parsed.metadata = <<>>

\* a block whose first line is dropped, with a line that only begins with
\* the text delimiter and opens the original text all the same
C17_Witness ==
    /\ pc = "rendered"
    /\ LET ls == SplitLines(source)
       IN  /\ Len(ls) = 4
           /\ KindStarting(ls[1]) = "" /\ ls[1] # <<>>
           /\ ls[2] = D_TEXT \o <<"x">>
           /\ KindStarting(ls[3]) = "" /\ ls[3] # <<>>
           /\ ls[4] = D_COMMENTARY
           /\ parsed.originalText = ls[3] \o <<"\n">>
           /\ parsed.commentary = <<>>

\* the lines of the metadata section
MetadataLines(ls) ==
    {i \in 1..Len(ls) :
        KindStarting(ls[i]) = "" /\ SectionAbove(ls, i, KindStarting) = "metadata"}

\* the offset of the colon of a line of the form key: value, or NONE: an
\* identifier, a colon, and something after it
KeyColon(line) ==
    LET colons == {j \in 0..(Len(line) - 1) : line[j + 1] = ":"}
    IN  IF /\ colons # {}
           /\ MinOf(colons) >= 1
           /\ \A j \in 1..MinOf(colons) : line[j] \in WordChars
           /\ Len(line) > MinOf(colons) + 1
        THEN MinOf(colons)
        ELSE NONE

KeyOf(line) == SubSeq(line, 1, KeyColon(line))

RawValueOf(line) == SubSeq(line, KeyColon(line) + 2, Len(line))

\* the parts of s between its commas
RECURSIVE CommaParts(_)
CommaParts(s) ==
    IF \A j \in 1..Len(s) : s[j] # ","
    THEN <<s>>
    ELSE LET c == MinOf({j \in 1..Len(s) : s[j] = ","})
         IN  <<SubSeq(s, 1, c - 1)>> \o CommaParts(SubSeq(s, c + 1, Len(s)))

\* what a line of the form key: value sets its key to
ValueSetBy(line) ==
    IF KeyOf(line) = <<"t", "a", "g", "s">>
    THEN TagList([k \in 1..Len(CommaParts(RawValueOf(line))) |->
                     Trim(CommaParts(RawValueOf(line))[k])])
    ELSE Scalar(Trim(RawValueOf(line)))

\* C18: every metadata line of the form key: value sets metadata[key], to
\* the trimmed comma-separated parts for tags and to the trimmed value for
\* any other key (the last such line of a key stands); other metadata lines
\* and the lines of other sections change nothing.
C18_MetadataLines ==
    pc = "rendered" =>
        LET ls == SplitLines(source)
            kv == {i \in MetadataLines(ls) : KeyColon(ls[i]) # NONE}
        IN  /\ DOMAIN parsed.metadata = {KeyOf(ls[i]) : i \in kv}
            /\ \A i \in kv :
                   (\A j \in kv : j > i => KeyOf(ls[j]) # KeyOf(ls[i]))
                   => parsed.metadata[KeyOf(ls[i])] = ValueSetBy(ls[i])

\* the three sections that have a body, in every order
BodyOrders ==
    {o \in [1..3 -> {"text", "commentary", "footnote"}] :
        \A a, b \in 1..3 : a # b => o[a] # o[b]}

BodyOf(p, k) ==
    IF k = "text" THEN p.originalText
    ELSE IF k = "commentary" THEN p.commentary
    ELSE p.footnotes

\* the bodies written back out, each under its delimiter, in the order o;
\* a section without body is left out unless keepEmpty
Reassembled(p, o, keepEmpty) ==
    Concat([a \in 1..3 |->
               IF BodyOf(p, o[a]) = <<>> /\ ~keepEmpty
               THEN <<>>
               ELSE DelimiterText[o[a]] \o <<"\n">> \o BodyOf(p, o[a])])

\* s without the newlines at its end
WithoutFinalNewlines(s) ==
    SubSeq(s, 1, MaxOf({j \in 1..Len(s) : s[j] # "\n"} \cup {0}))

SameBodies(p, q) ==
    \A k \in {"text", "commentary", "footnote"} :
        WithoutFinalNewlines(BodyOf(p, k)) = WithoutFinalNewlines(BodyOf(q, k))

\* C19: the bodies of a sectionized block, written back out under their
\* delimiters in any order and sectionized again, come back the same for
\* each section, up to the newlines at the end of a body.
C19_RoundTrip ==
    pc = "rendered" =>
        \A o \in BodyOrders :
            \A keepEmpty \in BOOLEAN :
                SameBodies(parseBlockContent(Reassembled(parsed, o, keepEmpty)),
                           parsed)

\* a block with the commentary above the original text, written back out
\* with the text first: the second parse gives the commentary, now the last
\* section, one more newline
C19_Witness ==
    /\ pc = "rendered"
    /\ parsed.originalText # <<>>
    /\ parsed.commentary # <<>>
    /\ \E i, j \in 1..Len(SplitLines(source)) :
           /\ i < j
           /\ KindStarting(SplitLines(source)[i]) = "commentary"
           /\ KindStarting(SplitLines(source)[j]) = "text"
    /\ LET o == [a \in 1..3 |->
                    IF a = 1 THEN "text"
                    ELSE IF a = 2 THEN "footnote" ELSE "commentary"]
           again == parseBlockContent(Reassembled(parsed, o, FALSE))
       IN  /\ again.originalText = parsed.originalText
           /\ again.commentary = parsed.commentary \o <<"\n">>

\* the markers and list items given, every marker leads to one list item
\* and every list item leads back to a marker
Closed(markers, items) ==
    /\ \A m \in 1..Len(markers) :
           Cardinality({k \in 1..Len(items) :
                           items[k].id = markers[m].target}) = 1
    /\ \A k \in 1..Len(items) :
           \E m \in 1..Len(markers) : markers[m].id = items[k].backref

\* C20: in a rendered block the target of every footnote marker of the
\* commentary body is the id of exactly one footnote list item of the
\* block, and the back-reference of every list item is the id of a marker
\* of the body.
C20_CrossReferencesClosed ==
    pc = "rendered" => Closed(rendered.markers, rendered.items)

----------------------------------------------------------------------------
(* The locator run twice *)

\* the next command asks for the bounds again: nothing was typed and the
\* cursor did not move in between
LocateAgain ==
    /\ pc = "located"
    /\ bounds' = getCurrentCommentaryBlockBounds(doc, cursor.line)
    /\ pc' = "relocated"
    /\ UNCHANGED <<doc, cursor, anchor, notice, last,
                   commentaryText, footnotesText, resolved,
                   source, parsed, rendered, footnote, classified,
                   blockCounter, blockRegistry, passes, dom, flat>>

NextRelocate == Locate \/ LocateAgain

SpecRelocate == InitLocator /\ [][NextRelocate]_vars

----------------------------------------------------------------------------
(* The two scanners of the editing path *)

\* the bounds hold a footnote section with footnoteStart <= l < footnoteEnd
InFootnoteBounds(b, l) ==
    /\ b.footnoteStart # NONE
    /\ b.footnoteStart <= l
    /\ l < b.footnoteEnd

\* C29: for every line for which the locator returns bounds, the backward
\* scan isInFootnoteSection says yes exactly when the line lies in the
\* footnote section of the bounds, footnoteStart <= line < footnoteEnd.
C29_ScannersAgree ==
    (pc = "located" /\ ~IsNull(bounds)) =>
        (isInFootnoteSection(doc, cursor.line)
            <=> InFootnoteBounds(bounds, cursor.line))

----------------------------------------------------------------------------
(* Render passes and teardowns *)

MaxRegistryLines == 2

InitRegistry ==
    /\ source \in {JoinLines(ls) : ls \in Tuples(SourceLines, MaxRegistryLines)}
    /\ parsed = NoParse
    /\ rendered = NoRender
    /\ footnote = <<>>
    /\ classified = NoClassification
    /\ blockCounter = 0
    /\ blockRegistry = NoBlocks
    /\ passes = NoPasses
    /\ dom = NoDom
    /\ flat = NoFlat
    /\ commentaryText = <<>>
    /\ footnotesText = <<>>
    /\ resolved = NoResult
    /\ pc = "input"
    /\ doc = <<>>
    /\ cursor = Origin
    /\ anchor = Origin
    /\ notice = ""
    /\ last = NoCommand
    /\ bounds = NullBounds

\* onunload: the registry is cleared, the counter stays
Onunload ==
    /\ blockRegistry' = NoBlocks
    /\ passes' = [passes EXCEPT !.live = 0]
    /\ pc' = "unloaded"
    /\ UNCHANGED <<doc, cursor, anchor, notice, last, bounds,
                   commentaryText, footnotesText, resolved,
                   source, parsed, rendered, footnote, classified,
                   blockCounter, dom, flat>>

NextRegistry == ProcessCommentaryBlock \/ Onunload

SpecRegistry == InitRegistry /\ [][NextRegistry]_vars

\* the ids of the passes since the last teardown
LiveIds ==
    {passes.issued[k] :
        k \in (Len(passes.issued) - passes.live + 1)..Len(passes.issued)}

RegistryInvariant ==
    /\ \A a, b \in 1..Len(passes.issued) :
           a # b => passes.issued[a] # passes.issued[b]
    /\ DOMAIN blockRegistry = LiveIds
    /\ Cardinality(DOMAIN blockRegistry) = passes.live

RegistryStep ==
    /\ blockCounter' >= blockCounter
    /\ IF passes'.issued # passes.issued
       THEN /\ passes'.issued = Append(passes.issued, rendered'.blockId)
            /\ DOMAIN blockRegistry' =
                   (DOMAIN blockRegistry) \cup {rendered'.blockId}
            /\ rendered'.blockId \notin DOMAIN blockRegistry
            /\ \A k \in DOMAIN blockRegistry :
                   blockRegistry'[k] = blockRegistry[k]
            /\ blockRegistry'[rendered'.blockId] = parsed'
       ELSE blockRegistry' = NoBlocks

\* C24: after any sequence of render passes and teardowns no block id has
\* been issued twice, the counter never goes down, and the registry holds
\* one entry per pass since the last teardown under that pass's id; a pass
\* adds its own entry and leaves the others alone, a teardown empties the
\* registry.
C24_IdsAndRegistry == []RegistryInvariant /\ [][RegistryStep]_vars

\* a pass, a teardown and a second pass: two ids issued, one entry left
C24_Witness ==
    /\ Len(passes.issued) = 2
    /\ passes.live = 1
    /\ DOMAIN blockRegistry = {BlockId(1)}
    /\ blockCounter = 2

----------------------------------------------------------------------------
(* The ids of a rendered block *)

\* the ids the elements of the block carry, marker by marker and item by item
RenderedIds ==
    [k \in 1..(Len(rendered.markers) + Len(rendered.items)) |->
        IF k <= Len(rendered.markers)
        THEN rendered.markers[k].id
        ELSE rendered.items[k - Len(rendered.markers)].id]

\* C27: within one rendered block no two elements carry the same id; the
\* anchor ids of the footnote markers are pairwise distinct, also when the
\* commentary cites a footnote more than once.
C27_IdsDistinct ==
    pc = "rendered" =>
        \A a, b \in 1..Len(RenderedIds) :
            a # b => RenderedIds[a] # RenderedIds[b]

----------------------------------------------------------------------------
(* The footnote command: where the cursor is left, and the way back *)

\* C26: after a footnote was created, for every block layout and every
\* selection, the line the cursor is on is the inserted definition line,
\* beginning $[n]:, and it lies inside the footnote section of the block
\* the cursor was in: below that block's footnote delimiter and above its
\* closing fence or next delimiter.
C26_CursorOnDefinition ==
    last.op = "create" =>
        LET s == NearestFence(last.doc, last.cursor.line)
        IN  /\ cursor.line < Len(doc)
            /\ StartsWith(LineAt(doc, cursor.line),
                          ReferenceText(last.number) \o <<":">>)
            /\ StartsWith(LineAt(doc, s), OPEN_FENCE)
            /\ InSection(doc, BlockOf(doc, s), cursor.line, D_FOOTNOTE)

\* the first command started on a line of the footnote section of its block
\* that begins with $[n]:
StartedOnDefinition(n) ==
    LET c == last.cursor.line
        line == LineAt(last.doc, c)
    IN  /\ InCommentaryBlock(last.doc, c)
        /\ InSection(last.doc, BlockOf(last.doc, c), c, D_FOOTNOTE)
        /\ StartsWith(line, ReferenceText(n) \o <<":">>)

\* the first command started on a reference $[n] of a line of the
\* commentary section of its block
StartedOnReference(n) ==
    LET c == last.cursor.line
        line == LineAt(last.doc, c)
    IN  /\ InCommentaryBlock(last.doc, c)
        /\ InSection(last.doc, BlockOf(last.doc, c), c, D_COMMENTARY)
        /\ MatchDefHead(line, 0) = NONE
        /\ \E i \in 0..(Len(line) - 1) :
               /\ Substring(line, i, i + Len(ReferenceText(n)))
                      = ReferenceText(n)
               /\ last.cursor.ch \in i..(i + Len(ReferenceText(n)))

FootnoteNumbers == 1..9

\* C28: on an unchanged document the command run twice from a definition
\* line of N in the footnote section leaves the cursor on the first
\* definition line of N of that block, and run twice from a reference to N
\* in the commentary section leaves it on the first line of that block's
\* commentary section that holds a reference to N; the text stays as it
\* was.  Stated of the second run, for blocks that hold both a reference to
\* N in the commentary section and a definition of N in the footnote
\* section.
C28_RoundTrip ==
    [][\A n \in FootnoteNumbers :
           LET blk == BlockOf(last.doc, last.cursor.line)
               refs == Targets("toReference", last.doc, blk, n)
               defs == Targets("toDefinition", last.doc, blk, n)
           IN  (/\ last.count = 1
                /\ refs # {}
                /\ defs # {}
                /\ StartedOnDefinition(n) \/ StartedOnReference(n))
               => /\ doc = last.doc
                  /\ doc' = last.doc
                  /\ StartedOnDefinition(n) => cursor'.line = MinOf(defs)
                  /\ StartedOnReference(n) => cursor'.line = MinOf(refs)]_vars

----------------------------------------------------------------------------
(* The splice on a rendered tree *)

MaxChildren == 2

LeafTexts ==
    {<<"x">>,
     <<"a", "{", "{", "f", "n", "r", "e", "f", ":", "1", "}", "}", "b">>,
     <<"{", "{", "f", "n", "r", "e", "f", ":", "2", "}", "}", "{", "{", "f", "n", "r", "e", "f", ":", "1", "2", "}", "}">>,
     <<"{", "{", "f", "n", "r", "e", "f", ":", "}", "}">>}

Leaves ==
    {TextNode(t, <<>>, FALSE) : t \in LeafTexts} \cup {CommentNode(<<>>)}

ElementNames == {<<"p">>, <<"e", "m">>}

SeqsUpTo(S, n) == UNION {[1..k -> S] : k \in 0..n}

ElementsOver(S) ==
    {Element(name, NoAttrs, children, <<>>, FALSE) :
        name \in ElementNames, children \in SeqsUpTo(S, MaxChildren)}

Flat1 == Leaves \cup ElementsOver(Leaves)

\* what the host's renderer may leave in tempContainer: up to MaxChildren
\* nodes of depth one, or one node of depth two
HostShapes ==
    SeqsUpTo(Flat1, MaxChildren) \cup {<<e>> : e \in ElementsOver(Flat1)}

\* each node is given its path
RECURSIVE Annotate(_, _)
Annotate(list, path) ==
    [k \in 1..Len(list) |->
        [list[k] EXCEPT !.path = Append(path, k),
                        !.children = Annotate(list[k].children,
                                              Append(path, k))]]

InitSplice ==
    /\ doc = <<>>
    /\ cursor = Origin
    /\ anchor = Origin
    /\ notice = ""
    /\ last = NoCommand
    /\ bounds = NullBounds
    /\ commentaryText = <<>>
    /\ footnotesText = <<>>
    /\ resolved = NoResult
    /\ source = <<>>
    /\ parsed = NoParse
    /\ rendered = NoRender
    /\ footnote = <<>>
    /\ classified = NoClassification
    /\ blockCounter = 0
    /\ blockRegistry = NoBlocks
    /\ passes = NoPasses
    /\ \E shape \in HostShapes :
           dom = [NoDom EXCEPT !.host = Annotate(shape, <<>>),
                               !.tempContainer = Annotate(shape, <<>>)]
    /\ flat = NoFlat
    /\ pc = "hostRendered"

\* lines 598-668: the children of tempContainer are processed and moved
RenderCommentaryWithFootnotes ==
    /\ pc = "hostRendered"
    /\ \E counter \in 0..(MaxRenders - 1) :
           LET out == SpliceTree(dom.tempContainer, BlockId(counter))
           IN  dom' = [dom EXCEPT !.blockId = BlockId(counter),
                                  !.tempContainer = <<>>,
                                  !.container = out.nodes,
                                  !.visited = out.visited]
    /\ pc' = "spliced"
    /\ UNCHANGED <<doc, cursor, anchor, notice, last, bounds,
                   commentaryText, footnotesText, resolved,
                   source, parsed, rendered, footnote, classified,
                   blockCounter, blockRegistry, passes, flat>>

NextSplice == RenderCommentaryWithFootnotes

SpecSplice == InitSplice /\ [][NextSplice]_vars

\* the nodes of a tree from the top down, a node before its children; the
\* inside of a node the splice created is not entered
RECURSIVE PreOrder(_)
PreOrder(list) ==
    IF list = <<>> THEN <<>>
    ELSE <<list[1]>>
             \o (IF list[1].created THEN <<>> ELSE PreOrder(list[1].children))
             \o PreOrder(Tail(list))

HoldsToken(node) == node.kind = "text" /\ TokenStarts(node.text) # {}

AllDigits(s) == s # <<>> /\ \A k \in 1..Len(s) : IsDigit(s[k])

\* the N of a label [N]
LabelNumber(label) == SubSeq(label, 2, Len(label) - 1)

\* a marker node: sup.footnote-ref holding one link whose label is [N],
\* whose target is <blockId>-footnote-N and whose id is <blockId>-ref-N
IsMarkerOf(node, blockId) ==
    /\ node.kind = "element"
    /\ node.name = <<"s", "u", "p">>
    /\ node.attrs.class = <<"f", "o", "o", "t", "n", "o", "t", "e", "-", "r", "e", "f">>
    /\ Len(node.children) = 1
    /\ LET link == node.children[1]
       IN  /\ link.kind = "element"
           /\ link.name = <<"a">>
           /\ Len(link.children) = 1
           /\ link.children[1].kind = "text"
           /\ LET label == link.children[1].text
                  n == LabelNumber(label)
              IN  /\ Len(label) >= 3
                  /\ label = <<"[">> \o n \o <<"]">>
                  /\ AllDigits(n)
                  /\ link.attrs.target
                         = blockId \o <<"-", "f", "o", "o", "t", "n", "o", "t", "e", "-">> \o n
                  /\ link.attrs.href
                         = <<"#">> \o blockId \o <<"-", "f", "o", "o", "t", "n", "o", "t", "e", "-">> \o n
                  /\ link.attrs.id = blockId \o <<"-", "r", "e", "f", "-">> \o n

\* a created node read back: a marker as its token, a run as its text
ReadNode(node) ==
    IF node.kind = "text" THEN node.text
    ELSE <<"{", "{", "f", "n", "r", "e", "f", ":">>
             \o LabelNumber(node.children[1].children[1].text) \o <<"}", "}">>

RECURSIVE ReadBack(_)
ReadBack(list) ==
    IF list = <<>> THEN <<>> ELSE ReadNode(list[1]) \o ReadBack(Tail(list))

\* how many nodes at the front of list were created for the leaf at path
RECURSIVE RunLength(_, _)
RunLength(list, path) ==
    IF list = <<>> \/ ~list[1].created \/ list[1].path # path THEN 0
    ELSE 1 + RunLength(Tail(list), path)

\* the tree with every run of created nodes read back as one text leaf
RECURSIVE Unsplice(_)
Unsplice(list) ==
    IF list = <<>> THEN <<>>
    ELSE IF list[1].created
    THEN LET n == RunLength(list, list[1].path)
         IN  <<TextNode(ReadBack(SubSeq(list, 1, n)), list[1].path, FALSE)>>
                 \o Unsplice(SubSeq(list, n + 1, Len(list)))
    ELSE <<[list[1] EXCEPT !.children = Unsplice(list[1].children)]>>
             \o Unsplice(Tail(list))

\* the nodes the splice put in place of the leaf at path, in order
RunOf(path) ==
    SelectSeq(PreOrder(dom.container),
              LAMBDA n : n.created /\ n.path = path)

MarkersOf(path) ==
    SelectSeq(RunOf(path), LAMBDA n : n.kind # "text")

\* C21: every text leaf of the host-rendered tree that holds k >= 1
\* placeholder tokens is replaced in place by plain-text runs and exactly k
\* marker nodes; read with each marker as its token {{fnref:N}} the
\* sequence is the leaf's text again; each marker has the label [N], the
\* target <blockId>-footnote-N and the id <blockId>-ref-N
C21_SpliceReadsBack ==
    pc = "spliced" =>
        /\ Unsplice(dom.container) = dom.host
        /\ \A k \in 1..Len(PreOrder(dom.host)) :
               LET leaf == PreOrder(dom.host)[k]
               IN  HoldsToken(leaf) =>
                       /\ Len(MarkersOf(leaf.path))
                              = Cardinality(TokenStarts(leaf.text))
                       /\ \A j \in 1..Len(RunOf(leaf.path)) :
                              \/ RunOf(leaf.path)[j].kind = "text"
                              \/ IsMarkerOf(RunOf(leaf.path)[j], dom.blockId)
                       /\ ReadBack(RunOf(leaf.path)) = leaf.text

\* a leaf with two tokens and text around them, below an element, spliced
C21_Witness ==
    /\ pc = "spliced"
    /\ \E k \in 1..Len(PreOrder(dom.host)) :
           LET leaf == PreOrder(dom.host)[k]
           IN  /\ Len(leaf.path) = 2
               /\ leaf.text = <<"{", "{", "f", "n", "r", "e", "f", ":", "2", "}", "}", "{", "{", "f", "n", "r", "e", "f", ":", "1", "2", "}", "}">>
               /\ Len(MarkersOf(leaf.path)) = 2
    /\ \E k \in 1..Len(PreOrder(dom.host)) :
           LET leaf == PreOrder(dom.host)[k]
           IN  /\ leaf.text = <<"a", "{", "{", "f", "n", "r", "e", "f", ":", "1", "}", "}", "b">>
               /\ Len(RunOf(leaf.path)) = 3

\* the tree without the nodes the splice created
RECURSIVE WithoutCreated(_)
WithoutCreated(list) ==
    IF list = <<>> THEN <<>>
    ELSE IF list[1].created THEN WithoutCreated(Tail(list))
    ELSE <<[list[1] EXCEPT !.children = WithoutCreated(list[1].children)]>>
             \o WithoutCreated(Tail(list))

\* the tree without the text leaves that hold a token
RECURSIVE WithoutTokenLeaves(_)
WithoutTokenLeaves(list) ==
    IF list = <<>> THEN <<>>
    ELSE IF HoldsToken(list[1]) THEN WithoutTokenLeaves(Tail(list))
    ELSE <<[list[1] EXCEPT
               !.children = WithoutTokenLeaves(list[1].children)]>>
             \o WithoutTokenLeaves(Tail(list))

VisitsOf(path) ==
    {k \in 1..Len(dom.visited) : dom.visited[k].path = path}

\* C22: the traversal visits every node of the host-rendered tree exactly
\* once and no node it created; the elements, with nesting and order, and
\* the text leaves without a token are after the splice what they were
C22_EachNodeOnce ==
    pc = "spliced" =>
        /\ \A k \in 1..Len(dom.visited) : ~dom.visited[k].created
        /\ \A k \in 1..Len(PreOrder(dom.host)) :
               Cardinality(VisitsOf(PreOrder(dom.host)[k].path)) = 1
        /\ Len(dom.visited) = Len(PreOrder(dom.host))
        /\ WithoutCreated(dom.container) = WithoutTokenLeaves(dom.host)

\* a tree of depth two whose token leaf has a later sibling, spliced
C22_Witness ==
    /\ pc = "spliced"
    /\ Len(dom.host) = 1
    /\ dom.host[1].kind = "element"
    /\ Len(dom.host[1].children) = 2
    /\ dom.host[1].children[1].kind = "element"
    /\ Len(dom.host[1].children[1].children) = 2
    /\ HoldsToken(dom.host[1].children[1].children[1])
    /\ Len(dom.container[1].children[1].children) > 2
    /\ Len(dom.visited) = 5

----------------------------------------------------------------------------
(* The footnote body made inline *)

MaxTopLevel == 3

InlineNodes ==
    {TextNode(<<"a">>, <<>>, FALSE),
     Element(<<"E", "M">>, NoAttrs, <<TextNode(<<"b">>, <<>>, FALSE)>>,
             <<>>, FALSE)}

Paragraphs ==
    {Element(<<"P">>, NoAttrs, children, <<>>, FALSE) :
        children \in SeqsUpTo(InlineNodes, MaxChildren)}

BlockNodes ==
    {Element(name, NoAttrs, <<TextNode(<<"c">>, <<>>, FALSE)>>, <<>>, FALSE) :
        name \in KeptNames \cup {<<"B", "L", "O", "C", "K", "Q", "U", "O", "T", "E">>, <<"H", "1">>}}

\* what the host's renderer may leave in tempDiv
BodyShapes ==
    SeqsUpTo(Paragraphs \cup BlockNodes
                 \cup {TextNode(<<"\n">>, <<>>, FALSE)},
             MaxTopLevel)

InitFlatten ==
    /\ doc = <<>>
    /\ cursor = Origin
    /\ anchor = Origin
    /\ notice = ""
    /\ last = NoCommand
    /\ bounds = NullBounds
    /\ commentaryText = <<>>
    /\ footnotesText = <<>>
    /\ resolved = NoResult
    /\ source = <<>>
    /\ parsed = NoParse
    /\ rendered = NoRender
    /\ footnote = <<>>
    /\ classified = NoClassification
    /\ blockCounter = 0
    /\ blockRegistry = NoBlocks
    /\ passes = NoPasses
    /\ dom = NoDom
    /\ \E shape \in BodyShapes :
           flat = [body |-> Annotate(shape, <<>>),
                   source |-> Annotate(shape, <<>>), target |-> <<>>]
    /\ pc = "bodyRendered"

\* line 379: the rendered body is moved into the new span.footnote-text
ProcessFootnoteContent ==
    /\ pc = "bodyRendered"
    /\ LET out == processFootnoteContent(flat.source, flat.target)
       IN  flat' = [flat EXCEPT !.source = out.source,
                                !.target = out.target]
    /\ pc' = "flattened"
    /\ UNCHANGED <<doc, cursor, anchor, notice, last, bounds,
                   commentaryText, footnotesText, resolved,
                   source, parsed, rendered, footnote, classified,
                   blockCounter, blockRegistry, passes, dom>>

NextFlatten == ProcessFootnoteContent

SpecFlatten == InitFlatten /\ [][NextFlatten]_vars

IsParagraph(node) == NodeName(node) = <<"P">>

IsKeptBlock(node) == NodeName(node) \in KeptNames \cup {<<"B", "L", "O", "C", "K", "Q", "U", "O", "T", "E">>}

IsBr(node) == node.created /\ NodeName(node) = <<"B", "R">>

\* the node as it was rendered, whatever style it was given since
SameNode(a, b) == [a EXCEPT !.attrs.style = <<>>] = [b EXCEPT !.attrs.style = <<>>]

\* what the k-th top-level node of the body has to contribute
Claimed(body, k) ==
    IF IsParagraph(body[k])
    THEN IF \A j \in 1..(k - 1) : ~IsParagraph(body[j])
         THEN body[k].children
         ELSE <<Br, Br>> \o body[k].children
    ELSE IF IsKeptBlock(body[k]) THEN <<Br, body[k]>>
    ELSE <<body[k]>>

RECURSIVE ClaimedFrom(_, _)
ClaimedFrom(body, k) ==
    IF k > Len(body) THEN <<>>
    ELSE Claimed(body, k) \o ClaimedFrom(body, k + 1)

\* C23: the flatten moves all of the body, in order, into the container:
\* the first top-level paragraph gives its children, each later one two line
\* breaks and its children, each top-level list, blockquote or code block a
\* line break and the node itself; afterwards the source is empty and no
\* paragraph is a child of the container
C23_Flattened ==
    pc = "flattened" =>
        /\ flat.source = <<>>
        /\ Len(flat.target) = Len(ClaimedFrom(flat.body, 1))
        /\ \A k \in 1..Len(flat.target) :
               SameNode(flat.target[k], ClaimedFrom(flat.body, 1)[k])
        /\ \A k \in 1..Len(flat.target) : ~IsParagraph(flat.target[k])

\* two paragraphs and a bullet list: the children of the first, br, br,
\* the children of the second, br, the list
C23_Witness ==
    /\ pc = "flattened"
    /\ Len(flat.body) = 3
    /\ IsParagraph(flat.body[1]) /\ Len(flat.body[1].children) = 1
    /\ IsParagraph(flat.body[2]) /\ Len(flat.body[2].children) = 1
    /\ NodeName(flat.body[3]) = <<"U", "L">>
    /\ Len(flat.target) = 6
    /\ flat.target[1] = flat.body[1].children[1]
    /\ IsBr(flat.target[2]) /\ IsBr(flat.target[3])
    /\ flat.target[4] = flat.body[2].children[1]
    /\ IsBr(flat.target[5])
    /\ flat.target[6] = flat.body[3]

====
